---------------------------- MODULE Spec2Model ----------------------------
(***************************************************************************)
(* Confidential lending and payroll programs (arcium-hq/c-spl-example-     *)
(* programs).                                                              *)
(*                                                                         *)
(*   CircuitSpec  the encrypted instructions borrow and repay as pure      *)
(*                functions over bounded operands.                         *)
(*   Spec         the two on-chain programs: requests, the computation     *)
(*                network completing a settlement, callbacks.  The two     *)
(*                programs own disjoint accounts; program_id selects the   *)
(*                program whose ledger a behaviour explores.               *)
(*                                                                         *)
(* Amounts are u64 in the source.  Every operand is bounded so that no     *)
(* product reaches 2^31.  An unsigned subtraction x - y with y > x wraps   *)
(* to 2^64 + (x - y) in the source; the model holds that value by its      *)
(* signed representative x - y, so a negative amount denotes a wrapped     *)
(* u64 (larger than every balance of the model).                           *)
(***************************************************************************)
EXTENDS Integers, Sequences, FiniteSets, TLC

VARIABLES program_id, pools, loans, payrolls, token, transfers, slot, last,
          applied, cin, cout

vars == <<program_id, pools, loans, payrolls, token, transfers, slot, last,
          applied, cin, cout>>

ledger == <<program_id, pools, loans, payrolls, token, transfers, slot, last,
            applied>>

-----------------------------------------------------------------------------
(* Bounds of the model. *)

\* circuit operands range over 0..MaxSmall and the values of the examples
MaxSmall == 3
\* outcomes that a division by zero is allowed to produce: 0..DivZeroMax
DivZeroMax == 1
\* tokens the lender (asset mint) and the borrower (collateral mint) start with
InitialAsset == 2
InitialCollateral == 1
\* tokens the employer starts with
InitialPayroll == 2
\* the clock runs over the slots 0..MaxSlot
MaxSlot == 2

-----------------------------------------------------------------------------
(* Ciphertexts.  A RescueCiphertext is an opaque 32-byte blob; the model   *)
(* keeps the plaintext it decrypts to under the MXE key inside a record.   *)

rescue_encrypt(v) == [ct |-> v]

rescue_decrypt(c) == c.ct

\* RescueCiphertext::default(), the all-zero blob of a new loan
RescueCiphertextDefault == rescue_encrypt(0)

-----------------------------------------------------------------------------
(* Fixed-point helpers: x * BasePoints(bps) and x / BasePoints(bps).       *)

BPS_DENOMINATOR == 10000

\* a / b, where dz is what the division yields when b = 0
div(a, b, dz) == IF b = 0 THEN dz ELSE a \div b

mul_base_points(a, bps) == (a * bps) \div BPS_DENOMINATOR

div_base_points(a, bps, dz) == div(a * BPS_DENOMINATOR, bps, dz)

min(a, b) == IF a <= b THEN a ELSE b

-----------------------------------------------------------------------------
(* The encrypted instruction borrow.                                       *)

\* borrow with the ratio divided by the denominator before the multiplication
borrow_divides_first(asset_amount, collateral_amount, price, loan_to_value_bps, dz) ==
    LET loan_to_value_bps_ratio == price * loan_to_value_bps
        max_loan_amount ==
            collateral_amount * (loan_to_value_bps_ratio \div BPS_DENOMINATOR)
        loan_amount == min(max_loan_amount, asset_amount)
        loan_collateral_amount ==
            div_base_points(loan_amount, loan_to_value_bps_ratio, dz)
        collateral_excess_amount == collateral_amount - loan_collateral_amount
    IN  [ max_loan_amount          |-> max_loan_amount,
          loan_amount              |-> loan_amount,
          loan_collateral_amount   |-> loan_collateral_amount,
          collateral_excess_amount |-> collateral_excess_amount,
          asset_transfer           |-> loan_amount,
          collateral_transfer      |-> collateral_excess_amount,
          principal                |-> rescue_encrypt(loan_amount) ]

borrow(asset_amount, collateral_amount, price, loan_to_value_bps, dz) ==
    LET loan_to_value_bps_ratio == price * loan_to_value_bps
        max_loan_amount == mul_base_points(collateral_amount, loan_to_value_bps_ratio)
        loan_amount == min(max_loan_amount, asset_amount)
        loan_collateral_amount ==
            div_base_points(loan_amount, loan_to_value_bps_ratio, dz)
        collateral_excess_amount == collateral_amount - loan_collateral_amount
    IN  [ max_loan_amount          |-> max_loan_amount,
          loan_amount              |-> loan_amount,
          loan_collateral_amount   |-> loan_collateral_amount,
          collateral_excess_amount |-> collateral_excess_amount,
          asset_transfer           |-> loan_amount,
          collateral_transfer      |-> collateral_excess_amount,
          principal                |-> rescue_encrypt(loan_amount) ]

(* The encrypted instruction repay.                                        *)

\* repay with the repaid share multiplied by the collateral before the division
repay_multiplies_first(repay_amount, locked_collateral, remaining_principal_ct, slots_elapsed, interest_rate_bps, dz) ==
    LET remaining_principal == rescue_decrypt(remaining_principal_ct)
        interest_accrued ==
            mul_base_points(remaining_principal, interest_rate_bps * slots_elapsed)
        total_due == remaining_principal + interest_accrued
        actual_repay_amount == min(repay_amount, total_due)
        remaining_due == total_due - actual_repay_amount
        collateral_repayment ==
            div(actual_repay_amount * locked_collateral, total_due, dz)
        loan_is_fully_repaid == (remaining_due = 0)
    IN  [ interest_accrued     |-> interest_accrued,
          total_due            |-> total_due,
          actual_repay_amount  |-> actual_repay_amount,
          remaining_due        |-> remaining_due,
          collateral_repayment |-> collateral_repayment,
          asset_transfer       |-> actual_repay_amount,
          collateral_transfer  |-> collateral_repayment,
          principal            |-> rescue_encrypt(remaining_due),
          loan_is_fully_repaid |-> loan_is_fully_repaid ]

\* repay that accrues no interest
repay_without_interest(repay_amount, locked_collateral, remaining_principal_ct, slots_elapsed, interest_rate_bps, dz) ==
    LET remaining_principal == rescue_decrypt(remaining_principal_ct)
        interest_accrued == 0
        total_due == remaining_principal + interest_accrued
        actual_repay_amount == min(repay_amount, total_due)
        remaining_due == total_due - actual_repay_amount
        collateral_repayment ==
            div(actual_repay_amount, total_due, dz) * locked_collateral
        loan_is_fully_repaid == (remaining_due = 0)
    IN  [ interest_accrued     |-> interest_accrued,
          total_due            |-> total_due,
          actual_repay_amount  |-> actual_repay_amount,
          remaining_due        |-> remaining_due,
          collateral_repayment |-> collateral_repayment,
          asset_transfer       |-> actual_repay_amount,
          collateral_transfer  |-> collateral_repayment,
          principal            |-> rescue_encrypt(remaining_due),
          loan_is_fully_repaid |-> loan_is_fully_repaid ]

\* repay that pays the whole deposit to the lender, whatever is due
repay_takes_whole_deposit(repay_amount, locked_collateral, remaining_principal_ct, slots_elapsed, interest_rate_bps, dz) ==
    LET remaining_principal == rescue_decrypt(remaining_principal_ct)
        interest_accrued ==
            mul_base_points(remaining_principal, interest_rate_bps * slots_elapsed)
        total_due == remaining_principal + interest_accrued
        actual_repay_amount == repay_amount
        remaining_due == total_due - actual_repay_amount
        collateral_repayment ==
            div(actual_repay_amount, total_due, dz) * locked_collateral
        loan_is_fully_repaid == (remaining_due = 0)
    IN  [ interest_accrued     |-> interest_accrued,
          total_due            |-> total_due,
          actual_repay_amount  |-> actual_repay_amount,
          remaining_due        |-> remaining_due,
          collateral_repayment |-> collateral_repayment,
          asset_transfer       |-> actual_repay_amount,
          collateral_transfer  |-> collateral_repayment,
          principal            |-> rescue_encrypt(remaining_due),
          loan_is_fully_repaid |-> loan_is_fully_repaid ]

\* repay whose repaid share is rounded up instead of truncated
repay_rounds_share_up(repay_amount, locked_collateral, remaining_principal_ct, slots_elapsed, interest_rate_bps, dz) ==
    LET remaining_principal == rescue_decrypt(remaining_principal_ct)
        interest_accrued ==
            mul_base_points(remaining_principal, interest_rate_bps * slots_elapsed)
        total_due == remaining_principal + interest_accrued
        actual_repay_amount == min(repay_amount, total_due)
        remaining_due == total_due - actual_repay_amount
        collateral_repayment ==
            div(actual_repay_amount + total_due - 1, total_due, dz)
                * locked_collateral
        loan_is_fully_repaid == (remaining_due = 0)
    IN  [ interest_accrued     |-> interest_accrued,
          total_due            |-> total_due,
          actual_repay_amount  |-> actual_repay_amount,
          remaining_due        |-> remaining_due,
          collateral_repayment |-> collateral_repayment,
          asset_transfer       |-> actual_repay_amount,
          collateral_transfer  |-> collateral_repayment,
          principal            |-> rescue_encrypt(remaining_due),
          loan_is_fully_repaid |-> loan_is_fully_repaid ]

repay(repay_amount, locked_collateral, remaining_principal_ct, slots_elapsed, interest_rate_bps, dz) ==
    LET remaining_principal == rescue_decrypt(remaining_principal_ct)
        interest_accrued ==
            mul_base_points(remaining_principal, interest_rate_bps * slots_elapsed)
        total_due == remaining_principal + interest_accrued
        actual_repay_amount == min(repay_amount, total_due)
        remaining_due == total_due - actual_repay_amount
        collateral_repayment ==
            div(actual_repay_amount, total_due, dz) * locked_collateral
        loan_is_fully_repaid == (remaining_due = 0)
    IN  [ interest_accrued     |-> interest_accrued,
          total_due            |-> total_due,
          actual_repay_amount  |-> actual_repay_amount,
          remaining_due        |-> remaining_due,
          collateral_repayment |-> collateral_repayment,
          asset_transfer       |-> actual_repay_amount,
          collateral_transfer  |-> collateral_repayment,
          principal            |-> rescue_encrypt(remaining_due),
          loan_is_fully_repaid |-> loan_is_fully_repaid ]

-----------------------------------------------------------------------------
(* Identities, mints and addresses.                                        *)

LendingID == "LEnd9tZRMSzvCktmhCeMEZXVMXLa2nEZ2QrCpMtr7dV"
PayrollID == "PayYVqDEBoQ7BrAL3NzzEW5uTeZhGV9vdJpD25PQfnd"
SystemProgramID == "system_program"

Lenders == {"lender"}
Borrowers == {"alice"}
AssetMint == "asset_mint"
CollateralMint == "collateral_mint"

\* an account that is no program derived address of either program
StrayAddress == <<"stray">>
\* Option::None for an optional account
NoAccount == <<"none">>
\* [0u8; 32], the key of an unused borrower slot
DefaultKey == "11111111111111111111111111111111"

\* the address of a keypair; every address is a tuple of strings
pubkey(key) == <<key>>

lending_pool_pda(lender) == <<"lending_pool", lender>>

loan_pda(lender, borrower) == <<"loan", lender, borrower>>

\* get_associated_token_address_and_adapter: the token account of an owner
get_associated_token_address(owner, mint) == <<"ata">> \o owner \o <<mint>>

\* get_transfer_account_address: the result record of a settlement
get_transfer_account_address(sources, transfer_id) ==
    <<"transfer">> \o sources[1]
        \o (IF Len(sources) > 1 THEN sources[2] ELSE <<>>)
        \o <<ToString(transfer_id)>>

\* the transfer ids a caller chooses from
TransferIds == {0, 1}

ComputationOffsets == {1}

\* A transfer id only names the result record.  A caller picks an id that is
\* in use, or the smallest one that is free for the source accounts: every
\* other order of picking free ids is this one with the ids renamed.
IdsToTry(sources, in_use) ==
    {id \in TransferIds :
        \A j \in TransferIds :
            j < id => get_transfer_account_address(sources, j) \in in_use}

\* the owner of the account at an address: the program once the account is
\* created, the system program before
account_owner(addr) ==
    IF addr \in DOMAIN pools \/ addr \in DOMAIN loans THEN LendingID
    ELSE IF addr \in DOMAIN payrolls THEN PayrollID
    ELSE SystemProgramID

-----------------------------------------------------------------------------
(* Lending state.                                                          *)

MAX_BORROWERS == 8

LendingPool_new(lender, asset_mint, collateral_mint, interest_rate_bps, loan_to_value_bps, collateral_threshold_bps) ==
    [ lender                   |-> lender,
      asset_mint               |-> asset_mint,
      collateral_mint          |-> collateral_mint,
      interest_rate_bps        |-> interest_rate_bps,
      loan_to_value_bps        |-> loan_to_value_bps,
      collateral_threshold_bps |-> collateral_threshold_bps,
      num_borrowers            |-> 0,
      borrowers                |-> [i \in 0..(MAX_BORROWERS - 1) |-> DefaultKey] ]

\* add_borrower that refuses only a list that is over its length
add_borrower_err_off_by_one(pool) ==
    IF pool.num_borrowers > MAX_BORROWERS THEN "InvalidAccountData" ELSE "Ok"

\* the error of add_borrower, "Ok" when the borrower is appended
add_borrower_err(pool) ==
    IF pool.num_borrowers >= MAX_BORROWERS THEN "InvalidAccountData" ELSE "Ok"

\* add_borrower that writes every borrower into the first entry
add_borrower_overwrites_first(pool, borrower) ==
    [pool EXCEPT !.borrowers[0] = borrower,
                 !.num_borrowers = pool.num_borrowers + 1]

add_borrower(pool, borrower) ==
    [pool EXCEPT !.borrowers[pool.num_borrowers] = borrower,
                 !.num_borrowers = pool.num_borrowers + 1]

Loan_new(borrower, lending_pool) ==
    [ borrower            |-> borrower,
      lending_pool        |-> lending_pool,
      active              |-> FALSE,
      encrypted_principal |-> RescueCiphertextDefault,
      encrypted_collateral |-> RescueCiphertextDefault,
      last_update_slot    |-> 0 ]

-----------------------------------------------------------------------------
(* Helpers on accounts.                                                    *)

\* the account map f with the account at address k created or replaced by v
Put(f, k, v) == [a \in DOMAIN f \cup {k} |-> IF a = k THEN v ELSE f[a]]

\* the outcome of the last instruction: its error ("Ok" when it succeeded),
\* whether the record addresses it declared were canonical and, when it was
\* rejected, its name
Outcome(op, err, canonical) == [op |-> op, err |-> err, canonical |-> canonical]

\* a successful instruction
Accepted(canonical) == Outcome("accepted", "Ok", canonical)

\* a failed instruction: the transaction is rolled back
Rejected(op, err, canonical) ==
    /\ last' = Outcome(op, err, canonical)
    /\ UNCHANGED <<program_id, pools, loans, payrolls, token, transfers, slot,
                   applied, cin, cout>>

\* custom_computation_output: Option<Vec<u8>>, the bytes held as a sequence
\* of decoded fields
NoOutput == [some |-> FALSE, data |-> <<>>]

SomeOutput(data) == [some |-> TRUE, data |-> data]

-----------------------------------------------------------------------------
(* Address checks of the lending program.                                  *)

check_lending_pool(lender, lending_pool_addr, asset_mint, asset_vault_ata, lending_pool_owner) ==
    LET pda == lending_pool_pda(lender)
        expected_ata == get_associated_token_address(pda, asset_mint)
    IN  IF lending_pool_addr # pda THEN "InvalidAccountData"
        ELSE IF account_owner(lending_pool_addr) # lending_pool_owner
             THEN "IncorrectProgramId"
        ELSE IF asset_vault_ata # NoAccount /\ asset_vault_ata # expected_ata
             THEN "InvalidAccountData"
        ELSE "Ok"

\* check_loan without the comparison of the loan address with its derivation
check_loan_skips_seeds(lender, borrower, loan_addr, asset_mint, collateral_mint, collateral_vault_ata, asset_repay_ata) ==
    LET pda == loan_pda(lender, borrower)
    IN  IF collateral_vault_ata
               # get_associated_token_address(pda, collateral_mint)
        THEN "InvalidAccountData"
        ELSE IF /\ asset_repay_ata # NoAccount
                /\ asset_repay_ata # get_associated_token_address(pda, asset_mint)
             THEN "InvalidAccountData"
        ELSE "Ok"

check_loan(lender, borrower, loan_addr, asset_mint, collateral_mint, collateral_vault_ata, asset_repay_ata) ==
    LET pda == loan_pda(lender, borrower)
    IN  IF loan_addr # pda THEN "InvalidSeeds"
        ELSE IF collateral_vault_ata
                    # get_associated_token_address(pda, collateral_mint)
             THEN "InvalidAccountData"
        ELSE IF /\ asset_repay_ata # NoAccount
                /\ asset_repay_ata # get_associated_token_address(pda, asset_mint)
             THEN "InvalidAccountData"
        ELSE "Ok"

-----------------------------------------------------------------------------
(* Inputs of the lending instructions.                                     *)

InterestRateChoices == {0, 1000}
LoanToValueChoices == {0, 10000}
CollateralThresholdChoices == {1}

LoanAddressChoices ==
    {loan_pda(l, b) : l \in Lenders, b \in Borrowers} \cup {StrayAddress}
\* the instruction builders' transfer accounts, and one that does not exist
BorrowTransferAccounts ==
    {get_transfer_account_address(
        <<get_associated_token_address(lending_pool_pda(l), AssetMint),
          get_associated_token_address(loan_pda(l, b), CollateralMint)>>, id) :
        l \in Lenders, b \in Borrowers, id \in TransferIds}
RepayTransferAccounts ==
    {get_transfer_account_address(
        <<get_associated_token_address(loan_pda(l, b), AssetMint),
          get_associated_token_address(loan_pda(l, b), CollateralMint)>>, id) :
        l \in Lenders, b \in Borrowers, id \in TransferIds}
LendingTransferAccounts ==
    BorrowTransferAccounts \cup RepayTransferAccounts \cup {StrayAddress}

-----------------------------------------------------------------------------
(* The confidential token program and the computation network, as the      *)
(* lending and payroll programs use them.                                  *)

\* transfer_with_computation / transfer: the submission is refused when the
\* transfer account is already in use or a token account of a leg is missing
submit_err(transfer_account, legs) ==
    IF transfer_account \in DOMAIN transfers THEN "AccountAlreadyInUse"
    ELSE IF \E i \in 1..Len(legs) :
                \/ legs[i].source \notin DOMAIN token
                \/ legs[i].destination \notin DOMAIN token
         THEN "InvalidAccountData"
    ELSE "Ok"

\* what leg i of a settlement moves out of (side = "source") or into
\* (side = "destination") the token account a
leg_amount(legs, amounts, i, side, a) ==
    IF i <= Len(legs) /\ legs[i][side] = a THEN amounts[i] ELSE 0

\* apply_legs that moves the first leg and forgets the second
apply_legs_first_leg_only(legs, amounts) ==
    [a \in DOMAIN token |->
        token[a]
        - leg_amount(legs, amounts, 1, "source", a)
        + leg_amount(legs, amounts, 1, "destination", a)]

\* the balances after the (at most two) legs moved their amounts
apply_legs(legs, amounts) ==
    [a \in DOMAIN token |->
        token[a]
        - leg_amount(legs, amounts, 1, "source", a)
        - leg_amount(legs, amounts, 2, "source", a)
        + leg_amount(legs, amounts, 1, "destination", a)
        + leg_amount(legs, amounts, 2, "destination", a)]

\* every leg moves an amount its source holds (a wrapped amount never is)
legs_funded(legs, amounts) ==
    \A i \in 1..Len(legs) :
        amounts[i] >= 0 /\ amounts[i] <= token[legs[i].source]

\* what the circuit of a submitted settlement returns on the current balances
circuit_result(t, dz) ==
    IF t.kind = "borrow"
    THEN LET r == borrow(token[t.legs[1].source], token[t.legs[2].source],
                         t.arguments.price, t.arguments.loan_to_value_bps, dz)
         IN  [ amounts |-> <<r.asset_transfer, r.collateral_transfer>>,
               output  |-> SomeOutput(<<r.principal>>) ]
    ELSE IF t.kind = "repay"
    THEN LET r == repay(token[t.legs[1].source], token[t.legs[2].source],
                        t.arguments.remaining_principal,
                        t.arguments.slots_elapsed,
                        t.arguments.interest_rate_bps, dz)
         IN  [ amounts |-> <<r.asset_transfer, r.collateral_transfer>>,
               output  |-> SomeOutput(<<r.principal, r.loan_is_fully_repaid>>) ]
    ELSE [ amounts |-> <<rescue_decrypt(t.arguments.encrypted_amount)>>,
           output  |-> NoOutput ]

\* the computation network executes the circuit of a submitted settlement,
\* the token program moves the legs (all of them or none) and the result
\* record becomes readable
mxe_execute(addr) ==
    /\ addr \in DOMAIN transfers
    /\ transfers[addr].status = "Requested"
    /\ \E dz \in 0..DivZeroMax :
        LET t == transfers[addr]
            r == circuit_result(t, dz)
            funded == legs_funded(t.legs, r.amounts)
        IN  /\ transfers' = [transfers EXCEPT
                    ![addr].status = IF funded THEN "Success" ELSE "Failed",
                    ![addr].custom_computation_output = r.output]
            /\ token' = IF funded THEN apply_legs(t.legs, r.amounts) ELSE token
    /\ UNCHANGED <<program_id, pools, loans, payrolls, slot, last, applied,
                   cin, cout>>

\* the computation is never carried out: the result record has no output
mxe_abort(addr) ==
    /\ addr \in DOMAIN transfers
    /\ transfers[addr].status = "Requested"
    /\ transfers' = [transfers EXCEPT ![addr].status = "Failed"]
    /\ UNCHANGED <<program_id, pools, loans, payrolls, token, slot, last,
                   applied, cin, cout>>

\* transfer_result: the result record of a finished settlement
transfer_result_err(addr) ==
    IF addr \notin DOMAIN transfers THEN "InvalidAccountData"
    ELSE IF transfers[addr].status = "Requested" THEN "InvalidAccountData"
    ELSE "Ok"

-----------------------------------------------------------------------------
(* Instructions of the lending program.                                    *)

process_initialize_lending_pool(lender, is_signer, lending_pool_addr, asset_vault_ata, interest_rate_bps, loan_to_value_bps, collateral_threshold_bps) ==
    LET canonical == lending_pool_addr = lending_pool_pda(lender)
        err == IF ~is_signer THEN "MissingRequiredSignature"
               ELSE check_lending_pool(lender, lending_pool_addr, AssetMint,
                                       asset_vault_ata, SystemProgramID)
    IN  IF err # "Ok" THEN Rejected("InitializeLendingPool", err, canonical)
        ELSE /\ pools' = Put(pools, lending_pool_addr,
                             LendingPool_new(lender, AssetMint, CollateralMint,
                                             interest_rate_bps, loan_to_value_bps,
                                             collateral_threshold_bps))
             /\ token' = Put(token, asset_vault_ata, 0)
             /\ last' = Accepted(canonical)
             /\ UNCHANGED <<program_id, loans, payrolls, transfers, slot,
                            applied, cin, cout>>

process_initialize_loan(borrower, is_signer, lender, lending_pool_addr, loan_addr, asset_vault_ata, collateral_vault_ata, asset_repay_ata) ==
    LET canonical == /\ lending_pool_addr = lending_pool_pda(lender)
                     /\ loan_addr = loan_pda(lender, borrower)
        pool_err == check_lending_pool(lender, lending_pool_addr, AssetMint,
                                       asset_vault_ata, LendingID)
        loan_err == check_loan(lender, borrower, loan_addr, AssetMint,
                               CollateralMint, collateral_vault_ata,
                               asset_repay_ata)
        err == IF ~is_signer THEN "MissingRequiredSignature"
               ELSE IF pool_err # "Ok" THEN pool_err
               ELSE IF loan_err # "Ok" THEN loan_err
               ELSE IF account_owner(loan_addr) # SystemProgramID
                    THEN "AccountAlreadyInUse"
               ELSE add_borrower_err(pools[lending_pool_addr])
    IN  IF err # "Ok" THEN Rejected("InitializeLoan", err, canonical)
        ELSE /\ loans' = Put(loans, loan_addr, Loan_new(borrower, lending_pool_addr))
             /\ pools' = [pools EXCEPT
                            ![lending_pool_addr] = add_borrower(@, borrower)]
             /\ token' = Put(Put(token, collateral_vault_ata, 0),
                             asset_repay_ata, 0)
             /\ last' = Accepted(canonical)
             /\ UNCHANGED <<program_id, payrolls, transfers, slot, applied,
                            cin, cout>>

\* the settlement that process_borrow submits
borrow_settlement(lender, borrower, lending_pool_addr, asset_vault_ata, collateral_vault_ata, asset_borrower_ata, collateral_borrower_ata, computation_offset) ==
    [ kind      |-> "borrow",
      callback  |-> [ instruction |-> "BorrowCallback",
                      account     |-> loan_pda(lender, borrower) ],
      legs      |-> << [ source |-> asset_vault_ata,
                         destination |-> asset_borrower_ata ],
                       [ source |-> collateral_vault_ata,
                         destination |-> collateral_borrower_ata ] >>,
      arguments |-> [ price |-> 1,
                      loan_to_value_bps |->
                          pools[lending_pool_addr].loan_to_value_bps ],
      computation_offset |-> computation_offset,
      status    |-> "Requested",
      custom_computation_output |-> NoOutput ]

\* process_borrow that marks the loan active when the request is made
process_borrow_marks_active(borrower, is_signer, lender, lending_pool_addr, loan_addr, asset_vault_ata, collateral_vault_ata, asset_borrower_ata, collateral_borrower_ata, computation_offset, transfer_id) ==
    LET canonical == /\ lending_pool_addr = lending_pool_pda(lender)
                     /\ loan_addr = loan_pda(lender, borrower)
        pool_err == check_lending_pool(lender, lending_pool_addr, AssetMint,
                                       asset_vault_ata, LendingID)
        loan_err == check_loan(lender, borrower, loan_addr, AssetMint,
                               CollateralMint, collateral_vault_ata, NoAccount)
        transfer_account ==
            get_transfer_account_address(
                <<asset_vault_ata, collateral_vault_ata>>, transfer_id)
        settlement == borrow_settlement(lender, borrower, lending_pool_addr,
                          asset_vault_ata, collateral_vault_ata,
                          asset_borrower_ata, collateral_borrower_ata,
                          computation_offset)
        err == IF ~is_signer THEN "MissingRequiredSignature"
               ELSE IF pool_err # "Ok" THEN pool_err
               ELSE IF loan_err # "Ok" THEN loan_err
               ELSE submit_err(transfer_account, settlement.legs)
    IN  IF err # "Ok" THEN Rejected("Borrow", err, canonical)
        ELSE /\ transfers' = Put(transfers, transfer_account, settlement)
             /\ loans' = [loans EXCEPT ![loan_addr].active = TRUE]
             /\ last' = Accepted(canonical)
             /\ UNCHANGED <<program_id, pools, payrolls, token, slot,
                            applied, cin, cout>>

process_borrow(borrower, is_signer, lender, lending_pool_addr, loan_addr, asset_vault_ata, collateral_vault_ata, asset_borrower_ata, collateral_borrower_ata, computation_offset, transfer_id) ==
    LET canonical == /\ lending_pool_addr = lending_pool_pda(lender)
                     /\ loan_addr = loan_pda(lender, borrower)
        pool_err == check_lending_pool(lender, lending_pool_addr, AssetMint,
                                       asset_vault_ata, LendingID)
        loan_err == check_loan(lender, borrower, loan_addr, AssetMint,
                               CollateralMint, collateral_vault_ata, NoAccount)
        transfer_account ==
            get_transfer_account_address(
                <<asset_vault_ata, collateral_vault_ata>>, transfer_id)
        settlement == borrow_settlement(lender, borrower, lending_pool_addr,
                          asset_vault_ata, collateral_vault_ata,
                          asset_borrower_ata, collateral_borrower_ata,
                          computation_offset)
        err == IF ~is_signer THEN "MissingRequiredSignature"
               ELSE IF pool_err # "Ok" THEN pool_err
               ELSE IF loan_err # "Ok" THEN loan_err
               ELSE submit_err(transfer_account, settlement.legs)
    IN  IF err # "Ok" THEN Rejected("Borrow", err, canonical)
        ELSE /\ transfers' = Put(transfers, transfer_account, settlement)
             /\ last' = Accepted(canonical)
             /\ UNCHANGED <<program_id, pools, loans, payrolls, token, slot,
                            applied, cin, cout>>

\* RescueCiphertext::try_from(&output_data[..]): the output is one ciphertext
borrow_output_err(output) ==
    IF Len(output) = 1 /\ DOMAIN output[1] = {"ct"} THEN "Ok"
    ELSE "InvalidArgument"

\* process_borrow_callback that adds the loan amount to the stored principal
process_borrow_callback_accumulates(loan_addr, transfer_account) ==
    LET canonical == TRUE \* a callback is given no key to derive an address from
        err == IF transfer_result_err(transfer_account) # "Ok"
               THEN transfer_result_err(transfer_account)
               ELSE IF ~transfers[transfer_account].custom_computation_output.some
                    THEN "panic"
               ELSE IF borrow_output_err(
                           transfers[transfer_account].custom_computation_output.data)
                           # "Ok"
                    THEN borrow_output_err(
                           transfers[transfer_account].custom_computation_output.data)
               ELSE IF loan_addr \notin DOMAIN loans THEN "BorshIoError"
               ELSE "Ok"
    IN  IF err # "Ok" THEN Rejected("BorrowCallback", err, canonical)
        ELSE LET encrypted_loan_amount ==
                     transfers[transfer_account].custom_computation_output.data[1]
             IN  /\ loans' = [loans EXCEPT ![loan_addr].encrypted_principal =
                        rescue_encrypt(rescue_decrypt(@)
                                       + rescue_decrypt(encrypted_loan_amount))]
                 /\ applied' = applied \cup
                        {<<"BorrowCallback", loan_addr, transfer_account>>}
                 /\ last' = Accepted(canonical)
                 /\ UNCHANGED <<program_id, pools, payrolls, token, transfers,
                                slot, cin, cout>>

process_borrow_callback(loan_addr, transfer_account) ==
    LET canonical == TRUE \* a callback is given no key to derive an address from
        err == IF transfer_result_err(transfer_account) # "Ok"
               THEN transfer_result_err(transfer_account)
               ELSE IF ~transfers[transfer_account].custom_computation_output.some
                    THEN "panic"
               ELSE IF borrow_output_err(
                           transfers[transfer_account].custom_computation_output.data)
                           # "Ok"
                    THEN borrow_output_err(
                           transfers[transfer_account].custom_computation_output.data)
               ELSE IF loan_addr \notin DOMAIN loans THEN "BorshIoError"
               ELSE "Ok"
    IN  IF err # "Ok" THEN Rejected("BorrowCallback", err, canonical)
        ELSE LET encrypted_loan_amount ==
                     transfers[transfer_account].custom_computation_output.data[1]
             IN  /\ loans' = [loans EXCEPT ![loan_addr].encrypted_principal =
                                               encrypted_loan_amount]
                 /\ applied' = applied \cup
                        {<<"BorrowCallback", loan_addr, transfer_account>>}
                 /\ last' = Accepted(canonical)
                 /\ UNCHANGED <<program_id, pools, payrolls, token, transfers,
                                slot, cin, cout>>

\* the settlement of process_repay with the slots elapsed read off the clock
repay_settlement_reads_clock(lender, borrower, lending_pool_addr, loan_addr, asset_repay_ata, collateral_vault_ata, asset_lender_ata, collateral_borrower_ata, computation_offset) ==
    [ kind      |-> "repay",
      callback  |-> [ instruction |-> "RepayCallback",
                      account     |-> loan_pda(lender, borrower) ],
      legs      |-> << [ source |-> asset_repay_ata,
                         destination |-> asset_lender_ata ],
                       [ source |-> collateral_vault_ata,
                         destination |-> collateral_borrower_ata ] >>,
      arguments |-> [ remaining_principal |->
                          loans[loan_addr].encrypted_principal,
                      slots_elapsed |->
                          slot - loans[loan_addr].last_update_slot,
                      interest_rate_bps |->
                          pools[lending_pool_addr].interest_rate_bps ],
      computation_offset |-> computation_offset,
      status    |-> "Requested",
      custom_computation_output |-> NoOutput ]

\* the settlement that process_repay submits
repay_settlement(lender, borrower, lending_pool_addr, loan_addr, asset_repay_ata, collateral_vault_ata, asset_lender_ata, collateral_borrower_ata, computation_offset) ==
    [ kind      |-> "repay",
      callback  |-> [ instruction |-> "RepayCallback",
                      account     |-> loan_pda(lender, borrower) ],
      legs      |-> << [ source |-> asset_repay_ata,
                         destination |-> asset_lender_ata ],
                       [ source |-> collateral_vault_ata,
                         destination |-> collateral_borrower_ata ] >>,
      arguments |-> [ remaining_principal |->
                          loans[loan_addr].encrypted_principal,
                      slots_elapsed |-> 10,
                      interest_rate_bps |->
                          pools[lending_pool_addr].interest_rate_bps ],
      computation_offset |-> computation_offset,
      status    |-> "Requested",
      custom_computation_output |-> NoOutput ]

process_repay(borrower, is_signer, lender, lending_pool_addr, loan_addr, asset_repay_ata, collateral_vault_ata, asset_lender_ata, collateral_borrower_ata, computation_offset, transfer_id) ==
    LET canonical == /\ lending_pool_addr = lending_pool_pda(lender)
                     /\ loan_addr = loan_pda(lender, borrower)
        pool_err == check_lending_pool(lender, lending_pool_addr, AssetMint,
                                       NoAccount, LendingID)
        loan_err == check_loan(lender, borrower, loan_addr, AssetMint,
                               CollateralMint, collateral_vault_ata,
                               asset_repay_ata)
        transfer_account ==
            get_transfer_account_address(
                <<asset_repay_ata, collateral_vault_ata>>, transfer_id)
        legs == << [ source |-> asset_repay_ata,
                     destination |-> asset_lender_ata ],
                   [ source |-> collateral_vault_ata,
                     destination |-> collateral_borrower_ata ] >>
        err == IF ~is_signer THEN "MissingRequiredSignature"
               ELSE IF pool_err # "Ok" THEN pool_err
               ELSE IF loan_err # "Ok" THEN loan_err
               ELSE IF loan_addr \notin DOMAIN loans THEN "BorshIoError"
               ELSE submit_err(transfer_account, legs)
    IN  IF err # "Ok" THEN Rejected("Repay", err, canonical)
        ELSE /\ transfers' = Put(transfers, transfer_account,
                    repay_settlement(lender, borrower, lending_pool_addr,
                        loan_addr, asset_repay_ata, collateral_vault_ata,
                        asset_lender_ata, collateral_borrower_ata,
                        computation_offset))
             /\ last' = Accepted(canonical)
             /\ UNCHANGED <<program_id, pools, loans, payrolls, token, slot,
                            applied, cin, cout>>

\* output_data[..32] is a ciphertext (a shorter output aborts on the slice)
\* and output_data[32..] is one boolean
repay_output_err(output) ==
    IF Len(output) < 1 THEN "panic"
    ELSE IF Len(output) = 2 /\ output[2] \in BOOLEAN THEN "Ok"
    ELSE "BorshIoError"

\* process_repay_callback that also writes the decrypted remaining debt into
\* the plaintext field last_update_slot
process_repay_callback_discloses_debt(loan_addr, transfer_account) ==
    LET canonical == TRUE
        err == IF transfer_result_err(transfer_account) # "Ok" THEN "panic"
               ELSE IF ~transfers[transfer_account].custom_computation_output.some
                    THEN "panic"
               ELSE IF repay_output_err(
                           transfers[transfer_account].custom_computation_output.data)
                           # "Ok"
                    THEN repay_output_err(
                           transfers[transfer_account].custom_computation_output.data)
               ELSE IF loan_addr \notin DOMAIN loans THEN "BorshIoError"
               ELSE "Ok"
    IN  IF err # "Ok" THEN Rejected("RepayCallback", err, canonical)
        ELSE LET output_data ==
                     transfers[transfer_account].custom_computation_output.data
                 remaining_due == output_data[1]
                 loan_is_fully_repaid == output_data[2]
             IN  /\ loans' = [loans EXCEPT
                        ![loan_addr].encrypted_principal = remaining_due,
                        ![loan_addr].active = ~loan_is_fully_repaid,
                        ![loan_addr].last_update_slot =
                            rescue_decrypt(remaining_due)]
                 /\ applied' = applied \cup
                        {<<"RepayCallback", loan_addr, transfer_account>>}
                 /\ last' = Accepted(canonical)
                 /\ UNCHANGED <<program_id, pools, payrolls, token, transfers,
                                slot, cin, cout>>

\* process_repay_callback that stores the principal and leaves active alone
process_repay_callback_keeps_active(loan_addr, transfer_account) ==
    LET canonical == TRUE \* a callback is given no key to derive an address from
        err == IF transfer_result_err(transfer_account) # "Ok" THEN "panic"
               ELSE IF ~transfers[transfer_account].custom_computation_output.some
                    THEN "panic"
               ELSE IF repay_output_err(
                           transfers[transfer_account].custom_computation_output.data)
                           # "Ok"
                    THEN repay_output_err(
                           transfers[transfer_account].custom_computation_output.data)
               ELSE IF loan_addr \notin DOMAIN loans THEN "BorshIoError"
               ELSE "Ok"
    IN  IF err # "Ok" THEN Rejected("RepayCallback", err, canonical)
        ELSE LET output_data ==
                     transfers[transfer_account].custom_computation_output.data
                 remaining_due == output_data[1]
                 loan_is_fully_repaid == output_data[2]
             IN  /\ loans' = [loans EXCEPT
                        ![loan_addr].encrypted_principal = remaining_due]
                 /\ applied' = applied \cup
                        {<<"RepayCallback", loan_addr, transfer_account>>}
                 /\ last' = Accepted(canonical)
                 /\ UNCHANGED <<program_id, pools, payrolls, token, transfers,
                                slot, cin, cout>>

process_repay_callback(loan_addr, transfer_account) ==
    LET canonical == TRUE \* a callback is given no key to derive an address from
        err == IF transfer_result_err(transfer_account) # "Ok" THEN "panic"
               ELSE IF ~transfers[transfer_account].custom_computation_output.some
                    THEN "panic"
               ELSE IF repay_output_err(
                           transfers[transfer_account].custom_computation_output.data)
                           # "Ok"
                    THEN repay_output_err(
                           transfers[transfer_account].custom_computation_output.data)
               ELSE IF loan_addr \notin DOMAIN loans THEN "BorshIoError"
               ELSE "Ok"
    IN  IF err # "Ok" THEN Rejected("RepayCallback", err, canonical)
        ELSE LET output_data ==
                     transfers[transfer_account].custom_computation_output.data
                 remaining_due == output_data[1]
                 loan_is_fully_repaid == output_data[2]
             IN  /\ loans' = [loans EXCEPT
                        ![loan_addr].encrypted_principal = remaining_due,
                        ![loan_addr].active = ~loan_is_fully_repaid]
                 /\ applied' = applied \cup
                        {<<"RepayCallback", loan_addr, transfer_account>>}
                 /\ last' = Accepted(canonical)
                 /\ UNCHANGED <<program_id, pools, payrolls, token, transfers,
                                slot, cin, cout>>

\* a holder moves tokens of its own account into another token account
user_transfer(owner, mint, amount, destination) ==
    LET source == get_associated_token_address(pubkey(owner), mint)
    IN  /\ source \in DOMAIN token
        /\ destination \in DOMAIN token
        /\ amount <= token[source]
        /\ token' = [token EXCEPT ![source] = @ - amount,
                                  ![destination] = @ + amount]
        /\ UNCHANGED <<program_id, pools, loans, payrolls, transfers, slot,
                       last, applied, cin, cout>>

-----------------------------------------------------------------------------
(* Payroll state.                                                          *)

MAX_EMPLOYEES == 8

Employers == {"acme"}
\* keys that sign AddEmployee: the employer and a stranger
EmployerSigners == Employers \cup {"globex"}
\* keys that AddEmployee appends
Hires == {"erin"}
\* keys that sign ClaimSalary: an employee and a stranger
ClaimSigners == Hires \cup {"zed"}
PayrollMint == "payroll_mint"
SalaryChoices == {1}

payroll_pda(employer) == <<"payroll", employer>>

Employee_default ==
    [ key                   |-> DefaultKey,
      encrypted_salary      |-> RescueCiphertextDefault,
      last_claimed_slot     |-> 0,
      previous_claimed_slot |-> 0 ]

Payroll_new(employer, mint) ==
    [ employer      |-> employer,
      mint          |-> mint,
      num_employees |-> 0,
      employees     |-> [i \in 0..(MAX_EMPLOYEES - 1) |-> Employee_default] ]

\* the indices of the listed entries that hold the key
employee_entries(payroll, employee) ==
    {i \in 0..(payroll.num_employees - 1) : payroll.employees[i].key = employee}

find_employee_err(payroll, employee) ==
    IF employee_entries(payroll, employee) = {} THEN "InvalidAccountData"
    ELSE "Ok"

\* find_employee without the break: the last listed entry that holds the key
find_employee_keeps_searching(payroll, employee) ==
    CHOOSE i \in employee_entries(payroll, employee) :
        \A j \in employee_entries(payroll, employee) : j <= i

\* the first listed entry that holds the key
find_employee(payroll, employee) ==
    CHOOSE i \in employee_entries(payroll, employee) :
        \A j \in employee_entries(payroll, employee) : i <= j

check_payroll(employer, payroll_addr, mint, payroll_token_account) ==
    IF payroll_addr # payroll_pda(employer) THEN "InvalidAccountOwner"
    ELSE IF payroll_token_account
                # get_associated_token_address(payroll_addr, mint)
         THEN "InvalidAccountData"
    ELSE "Ok"

PayrollAddressChoices ==
    {payroll_pda(e) : e \in EmployerSigners} \cup {StrayAddress}
ClaimTransferAccounts ==
    {get_transfer_account_address(
        <<get_associated_token_address(payroll_pda(e), PayrollMint)>>, id) :
        e \in Employers, id \in TransferIds}

-----------------------------------------------------------------------------
(* Instructions of the payroll program.                                    *)

process_initialize(employer, is_signer, payroll_addr, payroll_token_account) ==
    LET canonical == payroll_addr = payroll_pda(employer)
        payroll_err == check_payroll(employer, payroll_addr, PayrollMint,
                                     payroll_token_account)
        err == IF ~is_signer THEN "MissingRequiredSignature"
               ELSE IF payroll_err # "Ok" THEN payroll_err
               ELSE IF account_owner(payroll_addr) # SystemProgramID
                    THEN "AccountAlreadyInUse"
               ELSE "Ok"
    IN  IF err # "Ok" THEN Rejected("PayrollInitialize", err, canonical)
        ELSE /\ payrolls' = Put(payrolls, payroll_addr,
                                Payroll_new(employer, PayrollMint))
             /\ token' = Put(token, payroll_token_account, 0)
             /\ last' = Accepted(canonical)
             /\ UNCHANGED <<program_id, pools, loans, transfers, slot, applied,
                            cin, cout>>

\* process_add_employee that does not ask for the signature of the employer
process_add_employee_unsigned(employer, is_signer, payroll_addr, employee, encrypted_salary) ==
    LET canonical == payroll_addr = payroll_pda(employer)
        err == IF payroll_addr \notin DOMAIN payrolls THEN "BorshIoError"
               ELSE IF payrolls[payroll_addr].employer # employer
                    THEN "IllegalOwner"
               ELSE IF payrolls[payroll_addr].num_employees >= MAX_EMPLOYEES
                    THEN "AccountDataTooSmall"
               ELSE "Ok"
    IN  IF err # "Ok" THEN Rejected("AddEmployee", err, canonical)
        ELSE LET payroll == payrolls[payroll_addr]
             IN  /\ payrolls' = [payrolls EXCEPT ![payroll_addr] =
                        [payroll EXCEPT
                            !.employees[payroll.num_employees] =
                                [ key                   |-> employee,
                                  encrypted_salary      |-> encrypted_salary,
                                  last_claimed_slot     |-> 0,
                                  previous_claimed_slot |-> 0 ],
                            !.num_employees = payroll.num_employees + 1]]
                 /\ last' = Accepted(canonical)
                 /\ UNCHANGED <<program_id, pools, loans, token, transfers,
                                slot, applied, cin, cout>>

\* process_add_employee that writes every new entry over the first one
process_add_employee_overwrites_first(employer, is_signer, payroll_addr, employee, encrypted_salary) ==
    LET canonical == payroll_addr = payroll_pda(employer)
        err == IF ~is_signer THEN "MissingRequiredSignature"
               ELSE IF payroll_addr \notin DOMAIN payrolls THEN "BorshIoError"
               ELSE IF payrolls[payroll_addr].employer # employer
                    THEN "IllegalOwner"
               ELSE IF payrolls[payroll_addr].num_employees >= MAX_EMPLOYEES
                    THEN "AccountDataTooSmall"
               ELSE "Ok"
    IN  IF err # "Ok" THEN Rejected("AddEmployee", err, canonical)
        ELSE LET payroll == payrolls[payroll_addr]
             IN  /\ payrolls' = [payrolls EXCEPT ![payroll_addr] =
                        [payroll EXCEPT
                            !.employees[0] =
                                [ key                   |-> employee,
                                  encrypted_salary      |-> encrypted_salary,
                                  last_claimed_slot     |-> 0,
                                  previous_claimed_slot |-> 0 ],
                            !.num_employees = payroll.num_employees + 1]]
                 /\ last' = Accepted(canonical)
                 /\ UNCHANGED <<program_id, pools, loans, token, transfers,
                                slot, applied, cin, cout>>

process_add_employee(employer, is_signer, payroll_addr, employee, encrypted_salary) ==
    LET canonical == payroll_addr = payroll_pda(employer)
        err == IF ~is_signer THEN "MissingRequiredSignature"
               ELSE IF payroll_addr \notin DOMAIN payrolls THEN "BorshIoError"
               ELSE IF payrolls[payroll_addr].employer # employer
                    THEN "IllegalOwner"
               ELSE IF payrolls[payroll_addr].num_employees >= MAX_EMPLOYEES
                    THEN "AccountDataTooSmall"
               ELSE "Ok"
    IN  IF err # "Ok" THEN Rejected("AddEmployee", err, canonical)
        ELSE LET payroll == payrolls[payroll_addr]
             IN  /\ payrolls' = [payrolls EXCEPT ![payroll_addr] =
                        [payroll EXCEPT
                            !.employees[payroll.num_employees] =
                                [ key                   |-> employee,
                                  encrypted_salary      |-> encrypted_salary,
                                  last_claimed_slot     |-> 0,
                                  previous_claimed_slot |-> 0 ],
                            !.num_employees = payroll.num_employees + 1]]
                 /\ last' = Accepted(canonical)
                 /\ UNCHANGED <<program_id, pools, loans, token, transfers,
                                slot, applied, cin, cout>>

\* a claim settlement whose amount is twice the stored salary
claim_settlement_doubles(employer, payroll_token_account, employee_token_account, encrypted_amount, computation_offset) ==
    [ kind      |-> "claim",
      callback  |-> [ instruction |-> "ClaimSalaryCallback",
                      account     |-> payroll_pda(employer) ],
      legs      |-> << [ source |-> payroll_token_account,
                         destination |-> employee_token_account ] >>,
      arguments |-> [ encrypted_amount |->
                          rescue_encrypt(2 * rescue_decrypt(encrypted_amount)) ],
      computation_offset |-> computation_offset,
      status    |-> "Requested",
      custom_computation_output |-> NoOutput ]

\* the settlement that process_claim_salary submits
claim_settlement(employer, payroll_token_account, employee_token_account, encrypted_amount, computation_offset) ==
    [ kind      |-> "claim",
      callback  |-> [ instruction |-> "ClaimSalaryCallback",
                      account     |-> payroll_pda(employer) ],
      legs      |-> << [ source |-> payroll_token_account,
                         destination |-> employee_token_account ] >>,
      arguments |-> [ encrypted_amount |-> encrypted_amount ],
      computation_offset |-> computation_offset,
      status    |-> "Requested",
      custom_computation_output |-> NoOutput ]

\* process_claim_salary without the comparison of the slots
process_claim_salary_unthrottled(employee, is_signer, employee_token_account, employer, payroll_addr, payroll_token_account, computation_offset, transfer_id) ==
    LET canonical == payroll_addr = payroll_pda(employer)
        transfer_account ==
            get_transfer_account_address(<<payroll_token_account>>, transfer_id)
        payroll_err == check_payroll(employer, payroll_addr, PayrollMint,
                                     payroll_token_account)
        legs == << [ source |-> payroll_token_account,
                     destination |-> employee_token_account ] >>
        err == IF ~is_signer THEN "MissingRequiredSignature"
               ELSE IF payroll_err # "Ok" THEN payroll_err
               ELSE IF payroll_addr \notin DOMAIN payrolls THEN "BorshIoError"
               ELSE IF PayrollMint # payrolls[payroll_addr].mint
                    THEN "InvalidAccountOwner"
               ELSE IF find_employee_err(payrolls[payroll_addr], employee) # "Ok"
                    THEN find_employee_err(payrolls[payroll_addr], employee)
               ELSE submit_err(transfer_account, legs)
    IN  IF err # "Ok" THEN Rejected("ClaimSalary", err, canonical)
        ELSE LET payroll == payrolls[payroll_addr]
                 employee_idx == find_employee(payroll, employee)
             IN  /\ payrolls' = [payrolls EXCEPT ![payroll_addr] =
                        [payroll EXCEPT
                            !.employees[employee_idx].previous_claimed_slot =
                                payroll.employees[employee_idx].last_claimed_slot,
                            !.employees[employee_idx].last_claimed_slot = slot]]
                 /\ transfers' = Put(transfers, transfer_account,
                        claim_settlement(employer, payroll_token_account,
                            employee_token_account,
                            payroll.employees[employee_idx].encrypted_salary,
                            computation_offset))
                 /\ last' = Accepted(canonical)
                 /\ UNCHANGED <<program_id, pools, loans, token, slot, applied,
                                cin, cout>>

\* process_claim_salary whose slot update outlives a refused submission
process_claim_salary_keeps_slots(employee, is_signer, employee_token_account, employer, payroll_addr, payroll_token_account, computation_offset, transfer_id) ==
    LET canonical == payroll_addr = payroll_pda(employer)
        transfer_account ==
            get_transfer_account_address(<<payroll_token_account>>, transfer_id)
        payroll_err == check_payroll(employer, payroll_addr, PayrollMint,
                                     payroll_token_account)
        legs == << [ source |-> payroll_token_account,
                     destination |-> employee_token_account ] >>
        err == IF ~is_signer THEN "MissingRequiredSignature"
               ELSE IF payroll_err # "Ok" THEN payroll_err
               ELSE IF payroll_addr \notin DOMAIN payrolls THEN "BorshIoError"
               ELSE IF PayrollMint # payrolls[payroll_addr].mint
                    THEN "InvalidAccountOwner"
               ELSE IF find_employee_err(payrolls[payroll_addr], employee) # "Ok"
                    THEN find_employee_err(payrolls[payroll_addr], employee)
               ELSE IF payrolls[payroll_addr].employees[
                           find_employee(payrolls[payroll_addr], employee)
                       ].last_claimed_slot = slot
                    THEN "Custom(0)"
               ELSE "Ok"
        submitted == submit_err(transfer_account, legs)
    IN  IF err # "Ok" THEN Rejected("ClaimSalary", err, canonical)
        ELSE LET payroll == payrolls[payroll_addr]
                 employee_idx == find_employee(payroll, employee)
             IN  /\ payrolls' = [payrolls EXCEPT ![payroll_addr] =
                        [payroll EXCEPT
                            !.employees[employee_idx].previous_claimed_slot =
                                payroll.employees[employee_idx].last_claimed_slot,
                            !.employees[employee_idx].last_claimed_slot = slot]]
                 /\ transfers' =
                        IF submitted # "Ok" THEN transfers
                        ELSE Put(transfers, transfer_account,
                                claim_settlement(employer, payroll_token_account,
                                    employee_token_account,
                                    payroll.employees[employee_idx].encrypted_salary,
                                    computation_offset))
                 /\ last' = IF submitted # "Ok"
                            THEN Outcome("ClaimSalary", submitted, canonical)
                            ELSE Accepted(canonical)
                 /\ UNCHANGED <<program_id, pools, loans, token, slot, applied,
                                cin, cout>>

process_claim_salary(employee, is_signer, employee_token_account, employer, payroll_addr, payroll_token_account, computation_offset, transfer_id) ==
    LET canonical == payroll_addr = payroll_pda(employer)
        transfer_account ==
            get_transfer_account_address(<<payroll_token_account>>, transfer_id)
        payroll_err == check_payroll(employer, payroll_addr, PayrollMint,
                                     payroll_token_account)
        legs == << [ source |-> payroll_token_account,
                     destination |-> employee_token_account ] >>
        err == IF ~is_signer THEN "MissingRequiredSignature"
               ELSE IF payroll_err # "Ok" THEN payroll_err
               ELSE IF payroll_addr \notin DOMAIN payrolls THEN "BorshIoError"
               ELSE IF PayrollMint # payrolls[payroll_addr].mint
                    THEN "InvalidAccountOwner"
               ELSE IF find_employee_err(payrolls[payroll_addr], employee) # "Ok"
                    THEN find_employee_err(payrolls[payroll_addr], employee)
               ELSE IF payrolls[payroll_addr].employees[
                           find_employee(payrolls[payroll_addr], employee)
                       ].last_claimed_slot = slot
                    THEN "Custom(0)"
               ELSE submit_err(transfer_account, legs)
    IN  IF err # "Ok" THEN Rejected("ClaimSalary", err, canonical)
        ELSE LET payroll == payrolls[payroll_addr]
                 employee_idx == find_employee(payroll, employee)
             IN  /\ payrolls' = [payrolls EXCEPT ![payroll_addr] =
                        [payroll EXCEPT
                            !.employees[employee_idx].previous_claimed_slot =
                                payroll.employees[employee_idx].last_claimed_slot,
                            !.employees[employee_idx].last_claimed_slot = slot]]
                 /\ transfers' = Put(transfers, transfer_account,
                        claim_settlement(employer, payroll_token_account,
                            employee_token_account,
                            payroll.employees[employee_idx].encrypted_salary,
                            computation_offset))
                 /\ last' = Accepted(canonical)
                 /\ UNCHANGED <<program_id, pools, loans, token, slot, applied,
                                cin, cout>>

\* process_claim_salary_callback that passes on the error of a result record
\* it cannot read
process_claim_salary_callback_requires_result(employer, payroll_addr, payroll_token_account, transfer_account) ==
    LET canonical == payroll_addr = payroll_pda(employer)
        err == IF check_payroll(employer, payroll_addr, PayrollMint,
                                payroll_token_account) # "Ok"
               THEN check_payroll(employer, payroll_addr, PayrollMint,
                                  payroll_token_account)
               ELSE transfer_result_err(transfer_account)
    IN  IF err # "Ok" THEN Rejected("ClaimSalaryCallback", err, canonical)
        ELSE /\ applied' = applied \cup
                    {<<"ClaimSalaryCallback", payroll_addr, transfer_account>>}
             /\ last' = Accepted(canonical)
             /\ UNCHANGED <<program_id, pools, loans, payrolls, token,
                            transfers, slot, cin, cout>>

process_claim_salary_callback(employer, payroll_addr, payroll_token_account, transfer_account) ==
    LET canonical == payroll_addr = payroll_pda(employer)
        err == check_payroll(employer, payroll_addr, PayrollMint,
                             payroll_token_account)
    IN  IF err # "Ok" THEN Rejected("ClaimSalaryCallback", err, canonical)
        ELSE /\ applied' = applied \cup
                    {<<"ClaimSalaryCallback", payroll_addr, transfer_account>>}
             /\ last' = Accepted(canonical)
             /\ UNCHANGED <<program_id, pools, loans, payrolls, token,
                            transfers, slot, cin, cout>>

\* the ledger moves on to the next slot
advance_slot ==
    /\ program_id = PayrollID
    /\ last.err = "Ok"
    /\ slot < MaxSlot
    /\ slot' = slot + 1
    /\ UNCHANGED <<program_id, pools, loans, payrolls, token, transfers, last,
                   applied, cin, cout>>

-----------------------------------------------------------------------------
(* The ledger: both programs.                                              *)

EmptyAccounts == [a \in {} |-> a]

\* the token accounts the parties hold before either program is used
InitialTokens(program) ==
    IF program = LendingID
    THEN LET lender_asset == get_associated_token_address(pubkey("lender"), AssetMint)
             alice_asset == get_associated_token_address(pubkey("alice"), AssetMint)
             alice_collateral ==
                 get_associated_token_address(pubkey("alice"), CollateralMint)
         IN  [a \in {lender_asset, alice_asset, alice_collateral} |->
                 IF a = lender_asset THEN InitialAsset
                 ELSE IF a = alice_collateral THEN InitialCollateral
                 ELSE 0]
    ELSE LET acme == get_associated_token_address(pubkey("acme"), PayrollMint)
             erin == get_associated_token_address(pubkey("erin"), PayrollMint)
         IN  [a \in {acme, erin} |-> IF a = acme THEN InitialPayroll ELSE 0]

NoCircuit == [circuit |-> "none"]

LedgerInit(program) ==
    /\ program_id = program
    /\ pools = EmptyAccounts
    /\ loans = EmptyAccounts
    /\ payrolls = EmptyAccounts
    /\ token = InitialTokens(program)
    /\ transfers = EmptyAccounts
    /\ slot = 0
    /\ last = Accepted(TRUE)
    /\ applied = {}

Init ==
    /\ \E program \in {LendingID, PayrollID} : LedgerInit(program)
    /\ cin = NoCircuit
    /\ cout = NoCircuit

\* the deposits the parties of a lending pool make: the lender funds the
\* asset vault and the borrower the collateral vault with all they hold, the
\* borrower moves any part of the asset it holds into the repay account
LendingDeposits ==
    {<<l, AssetMint,
       get_associated_token_address(lending_pool_pda(l), AssetMint), "all">> :
        l \in Lenders}
    \cup
    UNION {{<<b, CollateralMint,
              get_associated_token_address(loan_pda(l, b), CollateralMint),
              "all">>,
            <<b, AssetMint,
              get_associated_token_address(loan_pda(l, b), AssetMint),
              "part">>} :
           l \in Lenders, b \in Borrowers}

\* the employer funds the payroll account with all it holds
PayrollDeposits ==
    {<<e, PayrollMint,
       get_associated_token_address(payroll_pda(e), PayrollMint), "all">> :
        e \in Employers}

\* the amounts of a deposit out of a balance
DepositAmounts(balance, share) ==
    IF share = "all" THEN {balance} \ {0} ELSE 1..balance

\* A rejected transaction is rolled back: the ledger after it is the ledger
\* before it, and what can follow is what could follow before it.  The model
\* records the rejection in last and explores no further from there, so
\* every instruction is tried in every reachable ledger state once.
Running(program) == program_id = program /\ last.err = "Ok"

\* the account lists an instruction is tried with: the one its instruction
\* builder makes, and that list with one account replaced by a stray one
Deviations(accounts) ==
    {accounts} \cup {[accounts EXCEPT ![f] = StrayAddress] : f \in DOMAIN accounts}

\* the signer flag and account list of one attempt: the built list unsigned,
\* and every deviation of it signed
Attempts(accounts) ==
    {<<FALSE, accounts>>} \cup {<<TRUE, d>> : d \in Deviations(accounts)}

InitializeLendingPool ==
    /\ Running(LendingID)
    /\ \E lender \in Lenders,
          interest_rate_bps \in InterestRateChoices,
          loan_to_value_bps \in LoanToValueChoices,
          collateral_threshold_bps \in CollateralThresholdChoices :
         \E at \in Attempts(
               [ lending_pool    |-> lending_pool_pda(lender),
                 asset_vault_ata |-> get_associated_token_address(
                                         lending_pool_pda(lender), AssetMint) ]) :
           process_initialize_lending_pool(lender, at[1], at[2].lending_pool,
               at[2].asset_vault_ata, interest_rate_bps, loan_to_value_bps,
               collateral_threshold_bps)

\* the record and vault accounts of a loan that the instruction builders list
LoanAccounts(lender, borrower) ==
    [ lending_pool         |-> lending_pool_pda(lender),
      loan                 |-> loan_pda(lender, borrower),
      asset_vault_ata      |-> get_associated_token_address(
                                   lending_pool_pda(lender), AssetMint),
      collateral_vault_ata |-> get_associated_token_address(
                                   loan_pda(lender, borrower), CollateralMint),
      asset_repay_ata      |-> get_associated_token_address(
                                   loan_pda(lender, borrower), AssetMint) ]

InitializeLoan ==
    /\ Running(LendingID)
    /\ \E borrower \in Borrowers, lender \in Lenders :
         \E at \in Attempts(LoanAccounts(lender, borrower)) :
           process_initialize_loan(borrower, at[1], lender, at[2].lending_pool,
               at[2].loan, at[2].asset_vault_ata, at[2].collateral_vault_ata,
               at[2].asset_repay_ata)

Borrow ==
    /\ Running(LendingID)
    /\ \E borrower \in Borrowers, lender \in Lenders,
          computation_offset \in ComputationOffsets :
         \E at \in Attempts(LoanAccounts(lender, borrower)),
            transfer_id \in IdsToTry(
                <<LoanAccounts(lender, borrower).asset_vault_ata,
                  LoanAccounts(lender, borrower).collateral_vault_ata>>,
                DOMAIN transfers) :
           process_borrow(borrower, at[1], lender, at[2].lending_pool,
               at[2].loan, at[2].asset_vault_ata, at[2].collateral_vault_ata,
               get_associated_token_address(pubkey(borrower), AssetMint),
               get_associated_token_address(pubkey(borrower), CollateralMint),
               computation_offset, transfer_id)

BorrowCallback ==
    /\ Running(LendingID)
    /\ \E loan_addr \in LoanAddressChoices,
          transfer_account \in LendingTransferAccounts :
           process_borrow_callback(loan_addr, transfer_account)

Repay ==
    /\ Running(LendingID)
    /\ \E borrower \in Borrowers, lender \in Lenders,
          computation_offset \in ComputationOffsets :
         \E at \in Attempts(LoanAccounts(lender, borrower)),
            transfer_id \in IdsToTry(
                <<LoanAccounts(lender, borrower).asset_repay_ata,
                  LoanAccounts(lender, borrower).collateral_vault_ata>>,
                DOMAIN transfers) :
           process_repay(borrower, at[1], lender, at[2].lending_pool,
               at[2].loan, at[2].asset_repay_ata, at[2].collateral_vault_ata,
               get_associated_token_address(pubkey(lender), AssetMint),
               get_associated_token_address(pubkey(borrower), CollateralMint),
               computation_offset, transfer_id)

RepayCallback ==
    /\ Running(LendingID)
    /\ \E loan_addr \in LoanAddressChoices,
          transfer_account \in LendingTransferAccounts :
           process_repay_callback(loan_addr, transfer_account)

\* the record and vault accounts of a payroll that the builders list
PayrollAccounts(employer) ==
    [ payroll               |-> payroll_pda(employer),
      payroll_token_account |-> get_associated_token_address(
                                    payroll_pda(employer), PayrollMint) ]

PayrollInitialize ==
    /\ Running(PayrollID)
    /\ \E employer \in Employers :
         \E at \in Attempts(PayrollAccounts(employer)) :
           process_initialize(employer, at[1], at[2].payroll,
                              at[2].payroll_token_account)

AddEmployee ==
    /\ Running(PayrollID)
    /\ \E employer \in EmployerSigners, is_signer \in BOOLEAN,
          payroll_addr \in PayrollAddressChoices, employee \in Hires,
          salary \in SalaryChoices :
           process_add_employee(employer, is_signer, payroll_addr, employee,
                                rescue_encrypt(salary))

ClaimSalary ==
    /\ Running(PayrollID)
    /\ \E employee \in ClaimSigners, employer \in Employers,
          computation_offset \in ComputationOffsets :
         \E at \in Attempts(PayrollAccounts(employer)),
            transfer_id \in IdsToTry(
                <<PayrollAccounts(employer).payroll_token_account>>,
                DOMAIN transfers) :
           process_claim_salary(employee, at[1],
               get_associated_token_address(pubkey(employee), PayrollMint),
               employer, at[2].payroll, at[2].payroll_token_account,
               computation_offset, transfer_id)

ClaimSalaryCallback ==
    /\ Running(PayrollID)
    /\ \E employer \in Employers,
          transfer_account \in ClaimTransferAccounts \cup {StrayAddress} :
         \E d \in Deviations(PayrollAccounts(employer)) :
           process_claim_salary_callback(employer, d.payroll,
               d.payroll_token_account, transfer_account)

Deposit ==
    /\ last.err = "Ok"
    /\ \E d \in (IF program_id = LendingID THEN LendingDeposits
              ELSE PayrollDeposits) :
         \E amount \in DepositAmounts(
                 token[get_associated_token_address(pubkey(d[1]), d[2])], d[4]) :
             user_transfer(d[1], d[2], amount, d[3])

Execute ==
    /\ last.err = "Ok"
    /\ \E addr \in DOMAIN transfers : mxe_execute(addr)

Abort ==
    /\ last.err = "Ok"
    /\ \E addr \in DOMAIN transfers : mxe_abort(addr)

Next ==
    \/ InitializeLendingPool
    \/ InitializeLoan
    \/ Borrow
    \/ BorrowCallback
    \/ Repay
    \/ RepayCallback
    \/ PayrollInitialize
    \/ AddEmployee
    \/ ClaimSalary
    \/ ClaimSalaryCallback
    \/ advance_slot
    \/ Deposit
    \/ Execute
    \/ Abort

Spec == Init /\ [][Next]_vars

\* the payroll program on its own
PayrollInit ==
    /\ LedgerInit(PayrollID)
    /\ cin = NoCircuit
    /\ cout = NoCircuit

PayrollNext ==
    \/ PayrollInitialize
    \/ AddEmployee
    \/ ClaimSalary
    \/ ClaimSalaryCallback
    \/ advance_slot
    \/ Deposit
    \/ Execute
    \/ Abort

PayrollSpec == PayrollInit /\ [][PayrollNext]_vars

-----------------------------------------------------------------------------
(* The encrypted instructions on their own: every operand is drawn from a  *)
(* bounded set, the circuit is applied once and its result is kept.        *)

ArcisID == "arcis"

\* balances and principals: the small amounts and the amounts of the tests
Amounts == 0..MaxSmall \cup {100, 1000, 2500}
Prices == {0, 1, 2}
LoanToValueOperands == {0, 1, 5000, 10000, 20000}
InterestRateOperands == {0, 1, 1000}
SlotsElapsedOperands == {0, 10}
\* what a division by zero inside a circuit may yield
DivZeroOutcomes == 0..(MaxSmall + 1)

BorrowOperands ==
    [ circuit           : {"borrow"},
      asset_amount      : Amounts,
      collateral_amount : Amounts,
      price             : Prices,
      loan_to_value_bps : LoanToValueOperands ]

RepayOperands ==
    [ circuit             : {"repay"},
      repay_amount        : Amounts,
      locked_collateral   : Amounts,
      remaining_principal : Amounts,
      slots_elapsed       : SlotsElapsedOperands,
      interest_rate_bps   : InterestRateOperands ]

CircuitInit ==
    /\ LedgerInit(ArcisID)
    /\ cin \in BorrowOperands \cup RepayOperands
    /\ cout = NoCircuit

ApplyBorrow ==
    /\ cin.circuit = "borrow"
    /\ cout = NoCircuit
    /\ \E dz \in DivZeroOutcomes :
         cout' = [ circuit |-> "borrow",
                   result  |-> borrow(cin.asset_amount, cin.collateral_amount,
                                      cin.price, cin.loan_to_value_bps, dz) ]
    /\ UNCHANGED <<ledger, cin>>

ApplyRepay ==
    /\ cin.circuit = "repay"
    /\ cout = NoCircuit
    /\ \E dz \in DivZeroOutcomes :
         cout' = [ circuit |-> "repay",
                   result  |-> repay(cin.repay_amount, cin.locked_collateral,
                                     rescue_encrypt(cin.remaining_principal),
                                     cin.slots_elapsed, cin.interest_rate_bps,
                                     dz) ]
    /\ UNCHANGED <<ledger, cin>>

CircuitNext ==
    \/ ApplyBorrow
    \/ ApplyRepay

CircuitSpec == CircuitInit /\ [][CircuitNext]_vars

-----------------------------------------------------------------------------
(* Both programs with full lists: a lending pool that nine keys apply to,  *)
(* the first of them borrowing and repaying, and a payroll that hires      *)
(* until its list is full.  A lending instruction is tried with the        *)
(* accounts its builder lists, unsigned, and with one account replaced; a  *)
(* callback is given the loan of the first or the second applicant and any *)
(* result record.                                                          *)

\* the keys that open a loan with the lender, in the order they apply
Applicants == <<"alice", "bob", "carol", "dave", "eve", "frank", "grace", "heidi", "ivan">>

CrowdLoans == {loan_pda(l, Applicants[i]) : l \in Lenders, i \in {1, 2}}
CrowdTransferAccounts ==
    UNION {{get_transfer_account_address(
                <<LoanAccounts(l, b).asset_vault_ata,
                  LoanAccounts(l, b).collateral_vault_ata>>, 0),
            get_transfer_account_address(
                <<LoanAccounts(l, b).asset_repay_ata,
                  LoanAccounts(l, b).collateral_vault_ata>>, 0)} :
           l \in Lenders, b \in Borrowers}

CrowdInitializeLendingPool ==
    /\ Running(LendingID)
    /\ \E lender \in Lenders :
         \/ /\ lending_pool_pda(lender) \notin DOMAIN pools
            /\ \E at \in Attempts(
                     [ lending_pool    |-> lending_pool_pda(lender),
                       asset_vault_ata |-> get_associated_token_address(
                                               lending_pool_pda(lender), AssetMint) ]) :
                 process_initialize_lending_pool(lender, at[1], at[2].lending_pool,
                     at[2].asset_vault_ata, 0, 10000, 1)
         \/ /\ lending_pool_pda(lender) \in DOMAIN pools
            /\ process_initialize_lending_pool(lender, TRUE,
                   lending_pool_pda(lender),
                   get_associated_token_address(lending_pool_pda(lender), AssetMint),
                   1000, 0, 1)

\* the next applicant opens its loan, or an applicant that has a loan sends
\* InitializeLoan again
CrowdInitializeLoan ==
    /\ Running(LendingID)
    /\ \E lender \in Lenders, i \in 1..Len(Applicants) :
         \/ /\ \A j \in 1..(i - 1) : loan_pda(lender, Applicants[j]) \in DOMAIN loans
            /\ loan_pda(lender, Applicants[i]) \notin DOMAIN loans
            /\ \E at \in Attempts(LoanAccounts(lender, Applicants[i])) :
                 process_initialize_loan(Applicants[i], at[1], lender,
                     at[2].lending_pool, at[2].loan, at[2].asset_vault_ata,
                     at[2].collateral_vault_ata, at[2].asset_repay_ata)
         \/ /\ loan_pda(lender, Applicants[i]) \in DOMAIN loans
            /\ process_initialize_loan(Applicants[i], TRUE, lender,
                   LoanAccounts(lender, Applicants[i]).lending_pool,
                   LoanAccounts(lender, Applicants[i]).loan,
                   LoanAccounts(lender, Applicants[i]).asset_vault_ata,
                   LoanAccounts(lender, Applicants[i]).collateral_vault_ata,
                   LoanAccounts(lender, Applicants[i]).asset_repay_ata)

\* a borrower with a loan makes its one Borrow request
CrowdBorrow ==
    /\ Running(LendingID)
    /\ \E lender \in Lenders, b \in Borrowers :
         /\ loan_pda(lender, b) \in DOMAIN loans
         /\ get_transfer_account_address(
                <<LoanAccounts(lender, b).asset_vault_ata,
                  LoanAccounts(lender, b).collateral_vault_ata>>, 0)
                \notin DOMAIN transfers
         /\ \E at \in Attempts(LoanAccounts(lender, b)) :
              process_borrow(b, at[1], lender, at[2].lending_pool, at[2].loan,
                  at[2].asset_vault_ata, at[2].collateral_vault_ata,
                  get_associated_token_address(pubkey(b), AssetMint),
                  get_associated_token_address(pubkey(b), CollateralMint),
                  1, 0)

CrowdBorrowCallback ==
    /\ Running(LendingID)
    /\ \E loan_addr \in CrowdLoans, transfer_account \in CrowdTransferAccounts :
         /\ transfer_account \in DOMAIN transfers
         /\ process_borrow_callback(loan_addr, transfer_account)

\* a borrower with a loan makes its one Repay request
CrowdRepay ==
    /\ Running(LendingID)
    /\ \E lender \in Lenders, b \in Borrowers :
         /\ loan_pda(lender, b) \in DOMAIN loans
         /\ get_transfer_account_address(
                <<LoanAccounts(lender, b).asset_repay_ata,
                  LoanAccounts(lender, b).collateral_vault_ata>>, 0)
                \notin DOMAIN transfers
         /\ \E at \in Attempts(LoanAccounts(lender, b)) :
              process_repay(b, at[1], lender, at[2].lending_pool, at[2].loan,
                  at[2].asset_repay_ata, at[2].collateral_vault_ata,
                  get_associated_token_address(pubkey(lender), AssetMint),
                  get_associated_token_address(pubkey(b), CollateralMint),
                  1, 0)

CrowdRepayCallback ==
    /\ Running(LendingID)
    /\ \E loan_addr \in CrowdLoans, transfer_account \in CrowdTransferAccounts :
         /\ transfer_account \in DOMAIN transfers
         /\ process_repay_callback(loan_addr, transfer_account)

-----------------------------------------------------------------------------
(* Instruction dispatch.  The handlers above are what process_instruction  *)
(* calls with the decoded variant; what follows is the decoding itself.    *)

\* the number of payload bytes of the variant with the given tag byte (Borsh
\* writes the variant index as one byte, then the fields), -1 for no variant
payload_length(program, tag) ==
    IF program = LendingID
    THEN IF tag = 0 THEN 6                  \* InitializeLendingPool: 3 x u16
         ELSE IF tag \in {2, 4} THEN 8      \* Borrow, Repay: 2 x u32
         ELSE IF tag \in {1, 3, 5} THEN 0   \* InitializeLoan and the callbacks
         ELSE -1
    ELSE IF tag \in {0, 3} THEN 0           \* Initialize, ClaimSalaryCallback
         ELSE IF tag = 1 THEN 64            \* AddEmployee: key and ciphertext
         ELSE IF tag = 2 THEN 8             \* ClaimSalary: 2 x u32
         ELSE -1

\* try_from_slice: the data must be one variant, with no byte missing or left
try_from_slice_err(program, instruction_data) ==
    IF Len(instruction_data) = 0 THEN "BorshIoError"
    ELSE IF payload_length(program, instruction_data[1]) < 0 THEN "BorshIoError"
    ELSE IF Len(instruction_data) - 1 # payload_length(program, instruction_data[1])
         THEN "BorshIoError"
    ELSE "Ok"

\* process_instruction that returns the decoding error to the caller
process_instruction_err_typed(program, instruction_data) ==
    IF try_from_slice_err(program, instruction_data) # "Ok"
    THEN "InvalidInstructionData"
    ELSE "Ok"

\* what process_instruction does before any handler runs
process_instruction_err(program, instruction_data) ==
    IF try_from_slice_err(program, instruction_data) # "Ok" THEN "panic"
    ELSE "Ok"

\* instruction data a caller may send: nothing, a tag of no variant, a
\* variant cut short, a variant with a byte left over, and whole variants
InstructionPayloads ==
    { <<>>, <<6>>, <<4>>, <<255>>, <<0>>, <<1, 0>>, <<3>>,
      <<2, 1, 0, 0, 0, 0, 0, 0, 0>>, <<2, 1, 0, 0, 0>> }

\* an instruction whose data does not decode
MalformedInstruction ==
    /\ last.err = "Ok"
    /\ \E instruction_data \in InstructionPayloads :
         /\ process_instruction_err(program_id, instruction_data) # "Ok"
         /\ Rejected("process_instruction",
                     process_instruction_err(program_id, instruction_data), TRUE)

CrowdNext ==
    \/ CrowdInitializeLendingPool
    \/ CrowdInitializeLoan
    \/ CrowdBorrow
    \/ CrowdBorrowCallback
    \/ CrowdRepay
    \/ CrowdRepayCallback
    \/ MalformedInstruction
    \/ PayrollInitialize
    \/ AddEmployee
    \/ ClaimSalary
    \/ ClaimSalaryCallback
    \/ advance_slot
    \/ Deposit
    \/ Execute
    \/ Abort

CrowdSpec == Init /\ [][CrowdNext]_vars

-----------------------------------------------------------------------------
(* Properties of the encrypted instructions (checked under CircuitSpec).   *)

\* C1: borrow conservation.  For every asset balance, collateral balance,
\* price and ltv_bps <= 10_000 the loan is at most the asset balance and the
\* locked collateral at most the collateral balance, so that no subtraction
\* wraps: loan + (asset balance - loan) = asset balance with a remainder
\* that is a balance, and loan_collateral + collateral_excess = collateral
\* balance with an excess that is a balance.
C1_BorrowConservation ==
    (cout.circuit = "borrow" /\ cin.loan_to_value_bps <= 10000) =>
        LET r == cout.result
        IN  /\ r.loan_amount >= 0
            /\ r.loan_amount <= cin.asset_amount
            /\ r.loan_amount + (cin.asset_amount - r.asset_transfer)
                   = cin.asset_amount
            /\ r.loan_collateral_amount >= 0
            /\ r.loan_collateral_amount <= cin.collateral_amount
            /\ r.collateral_excess_amount >= 0
            /\ r.loan_collateral_amount + r.collateral_excess_amount
                   = cin.collateral_amount

\* C2: borrow result.  max_loan = collateral * (price * ltv_bps) / 10_000
\* (multiplied first, truncating), loan = min(max_loan, asset balance),
\* loan_collateral = loan * 10_000 / (price * ltv_bps) (the same ratio,
\* defined when the ratio is not zero), collateral_excess = collateral -
\* loan_collateral, the loan is the new principal; and asset 1000,
\* collateral 2500, price 1, ltv_bps 10000 give 2500, 1000, 1000, 1500.
C2_BorrowResult ==
    cout.circuit = "borrow" =>
        LET r == cout.result
            ratio == cin.price * cin.loan_to_value_bps
            max_loan == (cin.collateral_amount * ratio) \div 10000
            loan == IF max_loan <= cin.asset_amount THEN max_loan
                    ELSE cin.asset_amount
        IN  /\ r.max_loan_amount = max_loan
            /\ r.loan_amount = loan
            /\ ratio > 0 =>
                   r.loan_collateral_amount = (loan * 10000) \div ratio
            /\ r.collateral_excess_amount
                   = cin.collateral_amount - r.loan_collateral_amount
            /\ r.asset_transfer = loan
            /\ r.collateral_transfer = r.collateral_excess_amount
            /\ r.principal = [ct |-> loan]
            /\ ( /\ cin.asset_amount = 1000 /\ cin.collateral_amount = 2500
                 /\ cin.price = 1 /\ cin.loan_to_value_bps = 10000 ) =>
                   /\ r.max_loan_amount = 2500
                   /\ r.loan_amount = 1000
                   /\ r.loan_collateral_amount = 1000
                   /\ r.collateral_excess_amount = 1500

\* the borrow circuit has been applied to the operands of the example
C2_Witness ==
    /\ cout.circuit = "borrow"
    /\ cin.asset_amount = 1000 /\ cin.collateral_amount = 2500
    /\ cin.price = 1 /\ cin.loan_to_value_bps = 10000
    /\ cout.result.loan_amount = 1000

\* C3: repay result.  interest = principal * (rate_bps * slots_elapsed) /
\* 10_000, total_due = principal + interest, actual_repay = min(deposit,
\* total_due), remaining_due = total_due - actual_repay, collateral_release
\* = (actual_repay / total_due) * locked_collateral with the truncating
\* division before the multiplication (defined when total_due is not zero),
\* fully_repaid = (remaining_due = 0).
C3_RepayResult ==
    cout.circuit = "repay" =>
        LET r == cout.result
            interest == (cin.remaining_principal
                            * (cin.interest_rate_bps * cin.slots_elapsed))
                        \div 10000
            total_due == cin.remaining_principal + interest
            actual_repay == IF cin.repay_amount <= total_due
                            THEN cin.repay_amount ELSE total_due
        IN  /\ r.interest_accrued = interest
            /\ r.total_due = total_due
            /\ r.actual_repay_amount = actual_repay
            /\ r.remaining_due = total_due - actual_repay
            /\ r.remaining_due >= 0
            /\ total_due > 0 =>
                   r.collateral_repayment
                       = (actual_repay \div total_due) * cin.locked_collateral
            /\ r.asset_transfer = actual_repay
            /\ r.collateral_transfer = r.collateral_repayment
            /\ r.principal = [ct |-> total_due - actual_repay]
            /\ r.loan_is_fully_repaid = (r.remaining_due = 0)

\* the repay circuit has been applied to a partial repayment of a debt that
\* carries interest, against locked collateral
C3_Witness ==
    /\ cout.circuit = "repay"
    /\ cin.locked_collateral > 1
    /\ cout.result.interest_accrued > 0
    /\ cout.result.actual_repay_amount > 1
    /\ cout.result.remaining_due > 0
    /\ cout.result.collateral_repayment = 0

RepayExample ==
    /\ cin.circuit = "repay"
    /\ cin.remaining_principal = 1000
    /\ cin.interest_rate_bps = 1
    /\ cin.slots_elapsed = 10
    /\ cin.repay_amount = 100
    /\ cin.locked_collateral = 1000

\* C4 as stated: principal 1000, rate_bps 1, slots_elapsed 10, deposit 100,
\* locked collateral 1000 yield interest 1, total_due 1001, actual_repay
\* 100, remaining_due 901, collateral_release 99, fully_repaid false.
C4_RepayExampleAsStated ==
    (RepayExample /\ cout.circuit = "repay") =>
        /\ cout.result.interest_accrued = 1
        /\ cout.result.total_due = 1001
        /\ cout.result.actual_repay_amount = 100
        /\ cout.result.remaining_due = 901
        /\ cout.result.collateral_repayment = 99
        /\ cout.result.loan_is_fully_repaid = FALSE

\* C4 amended: the same operands yield interest 1, total_due 1001,
\* actual_repay 100, remaining_due 901, fully_repaid false and
\* collateral_release (100 / 1001) * 1000 = 0.
C4_RepayExample ==
    (RepayExample /\ cout.circuit = "repay") =>
        /\ cout.result.interest_accrued = 1
        /\ cout.result.total_due = 1001
        /\ cout.result.actual_repay_amount = 100
        /\ cout.result.remaining_due = 901
        /\ cout.result.collateral_repayment = 0
        /\ cout.result.loan_is_fully_repaid = FALSE

\* the repay circuit has been applied to the operands of the example
C4_Witness ==
    /\ RepayExample
    /\ cout.circuit = "repay"
    /\ cout.result.total_due = 1001

-----------------------------------------------------------------------------
(* Properties of the two programs (checked under Spec).                    *)

\* the result record t holds the output of a finished computation
output_of(t) == transfers[t].custom_computation_output.data

\* C5: loan lifecycle, borrow step.  A loan record is created with
\* active = false and principal 0, and a BorrowCallback applied to a loan
\* leaves it active with the loan amount of the borrow computation as its
\* stored principal.
C5_BorrowStep ==
    [][ /\ \A l \in LoanAddressChoices :
            (l \notin DOMAIN loans /\ l \in DOMAIN loans') =>
                /\ loans'[l].active = FALSE
                /\ rescue_decrypt(loans'[l].encrypted_principal) = 0
        /\ \A l \in LoanAddressChoices, t \in LendingTransferAccounts :
            (last'.err = "Ok" /\ process_borrow_callback(l, t)) =>
                /\ loans'[l].encrypted_principal = output_of(t)[1]
                /\ loans'[l].active = TRUE
      ]_vars

\* C6: loan lifecycle, repay step.  A RepayCallback applied to a loan stores
\* the remaining_due output of its repay computation as the principal and
\* NOT fully_repaid as the active flag; fully_repaid is true exactly when
\* remaining_due is 0, so the loan is closed exactly then.
C6_RepayStep ==
    [][ \A l \in LoanAddressChoices, t \in LendingTransferAccounts :
            (last'.err = "Ok" /\ process_repay_callback(l, t)) =>
                /\ loans'[l].encrypted_principal = output_of(t)[1]
                /\ loans'[l].active = ~output_of(t)[2]
                /\ output_of(t)[2] = (rescue_decrypt(output_of(t)[1]) = 0)
                /\ (loans'[l].active = FALSE)
                       = (rescue_decrypt(loans'[l].encrypted_principal) = 0)
      ]_vars

\* a loan that one RepayCallback left open with a debt and a later
\* RepayCallback closed
C6_Witness ==
    \E l \in DOMAIN loans, t0, t1 \in RepayTransferAccounts :
        /\ <<"RepayCallback", l, t0>> \in applied
        /\ <<"RepayCallback", l, t1>> \in applied
        /\ output_of(t0)[2] = FALSE
        /\ rescue_decrypt(output_of(t0)[1]) > 0
        /\ output_of(t1)[2] = TRUE
        /\ loans[l].active = FALSE
        /\ rescue_decrypt(loans[l].encrypted_principal) = 0

\* C7: callback idempotence.  A BorrowCallback, RepayCallback or
\* ClaimSalaryCallback invoked with a result record it has already been
\* applied with leaves every record as it was.
C7_CallbackIdempotence ==
    [][ /\ \A l \in LoanAddressChoices, t \in LendingTransferAccounts :
            /\ ( /\ <<"BorrowCallback", l, t>> \in applied
                 /\ process_borrow_callback(l, t) ) =>
                    UNCHANGED <<pools, loans, payrolls>>
            /\ ( /\ <<"RepayCallback", l, t>> \in applied
                 /\ process_repay_callback(l, t) ) =>
                    UNCHANGED <<pools, loans, payrolls>>
        /\ \A e \in Employers, t \in ClaimTransferAccounts :
            ( /\ <<"ClaimSalaryCallback", payroll_pda(e), t>> \in applied
              /\ process_claim_salary_callback(e, payroll_pda(e),
                     get_associated_token_address(payroll_pda(e), PayrollMint),
                     t) ) =>
                UNCHANGED <<pools, loans, payrolls>>
      ]_vars

\* C8: no stale read across the asynchronous boundary.  The principal that
\* a RepayCallback stores is computed from the principal the loan holds
\* when the callback runs: the principal the repay computation was given is
\* the one in the record at callback time.
C8_NoStaleRead ==
    [][ \A l \in LoanAddressChoices, t \in LendingTransferAccounts :
            (last'.err = "Ok" /\ process_repay_callback(l, t)) =>
                transfers[t].arguments.remaining_principal
                    = loans[l].encrypted_principal
      ]_vars

\* C9: loan invariant.  In every loan record, active = false implies that
\* the stored principal decrypts to zero.
C9_InactiveLoanOwesNothing ==
    \A l \in DOMAIN loans :
        loans[l].active = FALSE =>
            rescue_decrypt(loans[l].encrypted_principal) = 0

\* C10: address integrity for requests and admin actions.  An instruction
\* whose declared pool, loan or payroll address differs from the canonical
\* derivation of its logical key is rejected, and the rejection changes no
\* record.
C10_AddressIntegrity ==
    /\ [](last.canonical \/ last.err # "Ok")
    /\ [][ (~last'.canonical) =>
               UNCHANGED <<pools, loans, payrolls, transfers, token>> ]_vars

\* a Repay on an open loan with a debt, declared with a loan address that is
\* not the derivation of (lender, borrower), has been rejected
C10_Witness ==
    /\ last.op = "Repay"
    /\ last.canonical = FALSE
    /\ last.err = "InvalidSeeds"
    /\ \E l \in DOMAIN loans :
           rescue_decrypt(loans[l].encrypted_principal) > 0

-----------------------------------------------------------------------------
(* Properties of the instructions with full lists and a second loan        *)
(* (checked under CrowdSpec unless stated otherwise).                      *)

\* C11: address check in Phase 2.  BorrowCallback, RepayCallback and
\* ClaimSalaryCallback re-derive the canonical loan or payroll address that
\* Phase 1 checked, which is the address the settlement names for its
\* callback: a callback whose declared loan or payroll account is another
\* address is rejected and changes no pool, loan or payroll record.
C11_CallbackAddressCheck ==
    [][ /\ \A l \in CrowdLoans, t \in DOMAIN transfers :
            ( /\ l # transfers[t].callback.account
              /\ \/ process_borrow_callback(l, t)
                 \/ process_repay_callback(l, t) )
                => /\ last'.err # "Ok"
                   /\ UNCHANGED <<pools, loans, payrolls>>
        /\ \A e \in Employers, t \in DOMAIN transfers :
            \A d \in Deviations(PayrollAccounts(e)) :
              ( /\ d.payroll # transfers[t].callback.account
                /\ process_claim_salary_callback(e, d.payroll,
                       d.payroll_token_account, t) )
                  => /\ last'.err # "Ok"
                     /\ UNCHANGED <<pools, loans, payrolls>>
      ]_vars

\* C12: capacity bound.  A payroll never lists more than 8 employees and a
\* lending pool never more than 8 borrowers; AddEmployee on a payroll that
\* lists 8 fails, InitializeLoan on a pool that lists 8 fails, and the failed
\* instruction leaves every pool, loan and payroll record as it was.
C12_CapacityBound ==
    /\ [](\A p \in DOMAIN pools : pools[p].num_borrowers <= 8)
    /\ [](\A p \in DOMAIN payrolls : payrolls[p].num_employees <= 8)
    /\ [][ \A e \in EmployerSigners, is_signer \in BOOLEAN, h \in Hires :
             \A p \in DOMAIN payrolls, salary \in SalaryChoices :
               ( /\ payrolls[p].num_employees = 8
                 /\ process_add_employee(e, is_signer, p, h,
                                         rescue_encrypt(salary)) )
                   => /\ last'.err # "Ok"
                      /\ UNCHANGED <<pools, loans, payrolls>>
          ]_vars
    /\ [][ \A l \in Lenders, i \in 1..Len(Applicants) :
             ( /\ lending_pool_pda(l) \in DOMAIN pools
               /\ pools[lending_pool_pda(l)].num_borrowers = 8
               /\ process_initialize_loan(Applicants[i], TRUE, l,
                      LoanAccounts(l, Applicants[i]).lending_pool,
                      LoanAccounts(l, Applicants[i]).loan,
                      LoanAccounts(l, Applicants[i]).asset_vault_ata,
                      LoanAccounts(l, Applicants[i]).collateral_vault_ata,
                      LoanAccounts(l, Applicants[i]).asset_repay_ata) )
                 => /\ last'.err # "Ok"
                    /\ UNCHANGED <<pools, loans, payrolls>>
          ]_vars

\* the ninth applicant was refused by a pool that lists eight borrowers
C12_Witness ==
    /\ last = Outcome("InitializeLoan", "InvalidAccountData", TRUE)
    /\ \E l \in Lenders :
         /\ lending_pool_pda(l) \in DOMAIN pools
         /\ pools[lending_pool_pda(l)].num_borrowers = 8
         /\ loan_pda(l, Applicants[8]) \in DOMAIN loans
         /\ loan_pda(l, Applicants[9]) \notin DOMAIN loans

-----------------------------------------------------------------------------
(* Properties of the payroll instructions (checked under PayrollSpec).     *)

\* the claim settlements submitted so far that pay the employee
claims_of(employee) ==
    {t \in DOMAIN transfers :
        /\ transfers[t].kind = "claim"
        /\ transfers[t].legs[1].destination
               = get_associated_token_address(pubkey(employee), PayrollMint)}

\* the payroll lists the employee with a claim accepted in the current slot
claimed_in_slot(payroll_addr, employee) ==
    /\ payroll_addr \in DOMAIN payrolls
    /\ find_employee_err(payrolls[payroll_addr], employee) = "Ok"
    /\ payrolls[payroll_addr].employees[
           find_employee(payrolls[payroll_addr], employee)].last_claimed_slot
           = slot
    /\ claims_of(employee) # {}

\* C13: claim throttling.  A ClaimSalary for an employee whose claim was
\* accepted earlier in the same slot is rejected (as already claimed,
\* Custom(0), when it is signed and lists the accounts of the builder) and
\* leaves the payroll records and the submitted transfers as they were; so
\* an employee has at most one claim transfer per slot that has begun.
C13_ClaimThrottling ==
    /\ [](\A h \in ClaimSigners : Cardinality(claims_of(h)) <= slot + 1)
    /\ [][ \A h \in ClaimSigners, e \in Employers, id \in TransferIds :
             \A at \in Attempts(PayrollAccounts(e)) :
               ( /\ claimed_in_slot(payroll_pda(e), h)
                 /\ process_claim_salary(h, at[1],
                        get_associated_token_address(pubkey(h), PayrollMint),
                        e, at[2].payroll, at[2].payroll_token_account, 1, id) )
                   => /\ last'.err # "Ok"
                      /\ (at = <<TRUE, PayrollAccounts(e)>>)
                             => last'.err = "Custom(0)"
                      /\ UNCHANGED <<payrolls, transfers>>
          ]_vars

\* a second claim in the slot of an accepted claim was turned down
C13_Witness ==
    /\ last = Outcome("ClaimSalary", "Custom(0)", TRUE)
    /\ slot > 0
    /\ \E e \in Employers, h \in Hires : claimed_in_slot(payroll_pda(e), h)

claims_all_failed(employee) ==
    /\ claims_of(employee) # {}
    /\ \A t \in claims_of(employee) : transfers[t].status = "Failed"

\* C14: payroll compensation on failure.  When the transfer of a salary
\* claim has failed (and no other claim of the employee is pending or has
\* succeeded) and ClaimSalaryCallback is invoked for it, the payroll it
\* leaves does not block the employee: the record does not show the
\* current slot as claimed, so that a following ClaimSalary of that employee,
\* in the slot of the failed claim too, is not rejected as already claimed.
C14_ReclaimAfterFailure ==
    [][ \A h \in Hires, e \in Employers, t \in DOMAIN transfers :
          ( /\ claims_all_failed(h)
            /\ t \in claims_of(h)
            /\ process_claim_salary_callback(e, PayrollAccounts(e).payroll,
                   PayrollAccounts(e).payroll_token_account, t) )
              => /\ last'.err = "Ok"
                 /\ ~(claimed_in_slot(payroll_pda(e), h))'
      ]_vars

-----------------------------------------------------------------------------
(* Properties of the instructions of both programs (checked under Spec,    *)
(* or under CrowdSpec where stated).                                       *)

\* C15: only callbacks change a loan.  A step that changes a loan record is
\* a BorrowCallback or a RepayCallback on that record: Borrow, Repay and
\* every other operation leave each existing loan as it is, so a loan
\* whose settlement is never called back keeps its pre-request state.  No
\* operation cancels a settlement: no result record is ever removed, and
\* one changes only when the computation network finishes the settlement.
C15_OnlyCallbacksChangeLoans ==
    [][ /\ \A l \in DOMAIN loans :
             /\ l \in DOMAIN loans'
             /\ loans'[l] # loans[l] =>
                    \E t \in DOMAIN transfers :
                        \/ process_borrow_callback(l, t)
                        \/ process_repay_callback(l, t)
        /\ \A t \in DOMAIN transfers :
             /\ t \in DOMAIN transfers'
             /\ transfers'[t] # transfers[t] => (mxe_execute(t) \/ mxe_abort(t))
      ]_vars

\* a borrow was settled with a loan amount and never called back, the loan
\* is as InitializeLoan made it, and a Repay request was accepted since
C15_Witness ==
    /\ applied = {}
    /\ \E l \in DOMAIN loans, t \in DOMAIN transfers, u \in DOMAIN transfers :
         /\ transfers[t].kind = "borrow"
         /\ transfers[t].callback.account = l
         /\ transfers[t].status = "Success"
         /\ rescue_decrypt(output_of(t)[1]) > 0
         /\ transfers[u].kind = "repay"
         /\ transfers[u].callback.account = l
         /\ loans[l] = Loan_new(loans[l].borrower, loans[l].lending_pool)

C17_OutputErrorsAreTyped ==
    [][ \A l \in LoanAddressChoices, t \in DOMAIN transfers :
          LET output == transfers[t].custom_computation_output
          IN  /\ ( /\ transfers[t].status # "Requested"
                    /\ (~output.some \/ borrow_output_err(output.data) # "Ok")
                    /\ process_borrow_callback(l, t) )
                      => /\ last'.err \notin {"Ok", "panic"}
                         /\ UNCHANGED loans
              /\ ( /\ transfers[t].status # "Requested"
                    /\ (~output.some \/ repay_output_err(output.data) # "Ok")
                    /\ process_repay_callback(l, t) )
                      => /\ last'.err \notin {"Ok", "panic"}
                         /\ UNCHANGED loans
      ]_vars

\* C18: no division by zero in repay.  Whenever the repay circuit is
\* executed for a Repay request that the program accepted, total_due is not
\* zero where actual_repay_amount / total_due is evaluated; this holds for
\* a request on a loan whose stored principal is zero too.
C18_RepayDividesByNonzero ==
    [][ \A t \in DOMAIN transfers :
          (transfers[t].kind = "repay" /\ mxe_execute(t)) =>
              repay(token[transfers[t].legs[1].source],
                    token[transfers[t].legs[2].source],
                    transfers[t].arguments.remaining_principal,
                    transfers[t].arguments.slots_elapsed,
                    transfers[t].arguments.interest_rate_bps, 0).total_due # 0
      ]_vars

\* the step rejects its instruction and changes no account
rejected_unchanged ==
    /\ last'.err # "Ok"
    /\ UNCHANGED <<pools, loans, payrolls, transfers, token>>

\* C20: signer authorization.  InitializeLendingPool without the signature
\* of the lender, InitializeLoan, Borrow and Repay without that of the
\* borrower, PayrollInitialize and AddEmployee without that of the employer
\* and ClaimSalary without that of the employee are rejected and change no
\* record; so are a signed AddEmployee whose signer is not the employer the
\* payroll records and a signed ClaimSalary whose signer the payroll does
\* not list.  (Checked under CrowdSpec.)
C20_SignerAuthorization ==
    [][ /\ \A l \in Lenders, rate \in InterestRateChoices, ltv \in LoanToValueChoices :
             process_initialize_lending_pool(l, FALSE, lending_pool_pda(l),
                 get_associated_token_address(lending_pool_pda(l), AssetMint),
                 rate, ltv, 1)
                 => rejected_unchanged
        /\ \A l \in Lenders, i \in 1..Len(Applicants) :
             LET a == LoanAccounts(l, Applicants[i])
             IN  process_initialize_loan(Applicants[i], FALSE, l, a.lending_pool,
                     a.loan, a.asset_vault_ata, a.collateral_vault_ata,
                     a.asset_repay_ata)
                     => rejected_unchanged
        /\ \A l \in Lenders, b \in Borrowers :
             LET a == LoanAccounts(l, b)
             IN  /\ \A id \in TransferIds :
                      /\ process_borrow(b, FALSE, l, a.lending_pool, a.loan,
                             a.asset_vault_ata, a.collateral_vault_ata,
                             get_associated_token_address(pubkey(b), AssetMint),
                             get_associated_token_address(pubkey(b), CollateralMint),
                             1, id)
                             => rejected_unchanged
                      /\ process_repay(b, FALSE, l, a.lending_pool, a.loan,
                             a.asset_repay_ata, a.collateral_vault_ata,
                             get_associated_token_address(pubkey(l), AssetMint),
                             get_associated_token_address(pubkey(b), CollateralMint),
                             1, id)
                             => rejected_unchanged
        /\ \A e \in Employers :
             process_initialize(e, FALSE, PayrollAccounts(e).payroll,
                                PayrollAccounts(e).payroll_token_account)
                 => rejected_unchanged
        /\ \A e \in EmployerSigners, p \in PayrollAddressChoices, h \in Hires :
             \A is_signer \in BOOLEAN, salary \in SalaryChoices :
               ( /\ \/ ~is_signer
                    \/ p \in DOMAIN payrolls /\ payrolls[p].employer # e
                 /\ process_add_employee(e, is_signer, p, h,
                                         rescue_encrypt(salary)) )
                   => rejected_unchanged
        /\ \A h \in ClaimSigners, e \in Employers, id \in TransferIds :
             \A is_signer \in BOOLEAN :
               ( /\ \/ ~is_signer
                    \/ /\ payroll_pda(e) \in DOMAIN payrolls
                       /\ employee_entries(payrolls[payroll_pda(e)], h) = {}
                 /\ process_claim_salary(h, is_signer,
                        get_associated_token_address(pubkey(h), PayrollMint), e,
                        PayrollAccounts(e).payroll,
                        PayrollAccounts(e).payroll_token_account, 1, id) )
                   => rejected_unchanged
      ]_vars

\* a Borrow that nothing but the missing signature stops was rejected
C20_Witness ==
    /\ last = Outcome("Borrow", "MissingRequiredSignature", TRUE)
    /\ \E l \in Lenders, b \in Borrowers :
         /\ loan_pda(l, b) \in DOMAIN loans
         /\ token[LoanAccounts(l, b).asset_vault_ata] > 0
         /\ token[LoanAccounts(l, b).collateral_vault_ata] > 0
         /\ transfers = EmptyAccounts

-----------------------------------------------------------------------------
(* Disclosure, token movement and bookkeeping of the two programs (checked *)
(* under CrowdSpec unless stated otherwise).                               *)

\* a loan record with its two ciphertexts blanked
plain_loan(loan) ==
    [loan EXCEPT !.encrypted_principal = RescueCiphertextDefault,
                 !.encrypted_collateral = RescueCiphertextDefault]

\* a payroll record with the salary ciphertexts blanked
plain_payroll(payroll) ==
    [payroll EXCEPT !.employees =
        [i \in DOMAIN payroll.employees |->
            [payroll.employees[i] EXCEPT
                !.encrypted_salary = RescueCiphertextDefault]]]

\* C21: minimal disclosure, as the step condition that yields it by
\* induction over two executions with the same operations.  In every step
\* the plaintext part of every record after the step is a function of the
\* plaintext parts before it, the instruction with its plaintext inputs and
\* the slot, and of one secret-derived value only: an accepted
\* RepayCallback sets the active flag of its loan to the negation of the
\* fully_repaid value revealed in the result record it is given.  A pool
\* record changes only by its creation from the instruction's terms or by
\* the append of the borrower of a loan created in the same step; a loan
\* record is created as Loan_new of the keys its address is derived from; a
\* payroll record changes only by its creation, by the append of the key
\* AddEmployee is given, or by a claim's move of the entry's slots to the
\* current slot.
C21_MinimalDisclosure ==
    [][ /\ \A l \in DOMAIN loans :
             plain_loan(loans'[l]) # plain_loan(loans[l]) =>
                 \E t \in DOMAIN transfers :
                     /\ process_repay_callback(l, t)
                     /\ plain_loan(loans'[l]) =
                            [plain_loan(loans[l]) EXCEPT
                                !.active = ~output_of(t)[2]]
        /\ \A l \in DOMAIN loans' \ DOMAIN loans :
             \E lender \in Lenders, i \in 1..Len(Applicants) :
                 /\ l = loan_pda(lender, Applicants[i])
                 /\ loans'[l] = Loan_new(Applicants[i],
                                         lending_pool_pda(lender))
                 /\ pools' = [pools EXCEPT ![lending_pool_pda(lender)] =
                                 add_borrower(@, Applicants[i])]
        /\ \A p \in DOMAIN pools :
             pools'[p] # pools[p] => DOMAIN loans' # DOMAIN loans
        /\ \A p \in DOMAIN pools' \ DOMAIN pools :
             \E lender \in Lenders :
                 /\ p = lending_pool_pda(lender)
                 /\ process_initialize_lending_pool(lender, TRUE, p,
                        get_associated_token_address(p, AssetMint), 0, 10000, 1)
                 /\ pools'[p] = LendingPool_new(lender, AssetMint,
                                                CollateralMint, 0, 10000, 1)
        /\ \A p \in DOMAIN payrolls' \ DOMAIN payrolls :
             \E e \in Employers :
                 /\ p = payroll_pda(e)
                 /\ payrolls'[p] = Payroll_new(e, PayrollMint)
        /\ \A p \in DOMAIN payrolls :
             plain_payroll(payrolls'[p]) # plain_payroll(payrolls[p]) =>
                 LET n == payrolls[p].num_employees
                 IN  \/ \E e \in EmployerSigners, h \in Hires, salary \in SalaryChoices :
                          /\ process_add_employee(e, TRUE, p, h,
                                                  rescue_encrypt(salary))
                          /\ plain_payroll(payrolls'[p]) =
                               [plain_payroll(payrolls[p]) EXCEPT
                                   !.employees[n] =
                                       [Employee_default EXCEPT !.key = h],
                                   !.num_employees = n + 1]
                     \/ \E h \in Hires :
                          /\ employee_entries(payrolls[p], h) # {}
                          /\ LET i == find_employee(payrolls[p], h)
                             IN  plain_payroll(payrolls'[p]) =
                                   [plain_payroll(payrolls[p]) EXCEPT
                                       !.employees[i].previous_claimed_slot =
                                           payrolls[p].employees[i].last_claimed_slot,
                                       !.employees[i].last_claimed_slot = slot]
      ]_vars

\* a RepayCallback revealed that a debt remains, and its loan was made active
C21_Witness ==
    \E l \in DOMAIN loans, t \in DOMAIN transfers :
        /\ <<"RepayCallback", l, t>> \in applied
        /\ transfers[t].kind = "repay"
        /\ transfers[t].custom_computation_output.some
        /\ output_of(t)[2] = FALSE
        /\ rescue_decrypt(output_of(t)[1]) > 0
        /\ loans[l].active

\* the sum of the balances of a set of token accounts
RECURSIVE balance_sum(_)
balance_sum(accounts) ==
    IF accounts = {} THEN 0
    ELSE LET a == CHOOSE x \in accounts : TRUE
         IN  token[a] + balance_sum(accounts \ {a})

\* the sum of the balances of all token accounts of a mint
mint_total(mint) == balance_sum({a \in DOMAIN token : a[Len(a)] = mint})

\* the step completes the settlement of the result record t
completes(t) ==
    /\ transfers[t].status = "Requested"
    /\ transfers'[t].status = "Success"

\* the step moves amount out of the source and into the destination of a leg
moves(leg, amount) ==
    /\ token'[leg.source] = token[leg.source] - amount
    /\ token'[leg.destination] = token[leg.destination] + amount

C23_PoolAppendOnly ==
    [][ \A p \in DOMAIN pools :
          /\ p \in DOMAIN pools'
          /\ \/ pools'[p] = pools[p]
             \/ /\ pools'[p] = [pools[p] EXCEPT
                       !.borrowers = pools'[p].borrowers,
                       !.num_borrowers = pools[p].num_borrowers + 1]
                /\ \A i \in 0..(pools[p].num_borrowers - 1) :
                       pools'[p].borrowers[i] = pools[p].borrowers[i]
                /\ \A i \in (pools[p].num_borrowers + 1)..(MAX_BORROWERS - 1) :
                       pools'[p].borrowers[i] = pools[p].borrowers[i]
                /\ \E lender \in Lenders, i \in 1..Len(Applicants) :
                       /\ loan_pda(lender, Applicants[i]) \in DOMAIN loans' \ DOMAIN loans
                       /\ p = lending_pool_pda(lender)
                       /\ pools'[p].borrowers[pools[p].num_borrowers] = Applicants[i]
      ]_vars

\* a second InitializeLendingPool with other terms was tried on a pool that
\* lists two borrowers
C23_Witness ==
    /\ last.op = "InitializeLendingPool"
    /\ \E p \in DOMAIN pools : pools[p].num_borrowers >= 2

\* C24: malformed instruction payload.  In both programs instruction data
\* that does not decode to a variant (no data, an unknown tag, a variant cut
\* short or with bytes left over) ends process_instruction with an abort, not
\* a typed error, and the step changes no record, balance or settlement;
\* data that decodes to a variant is never refused by the dispatch.
C24_MalformedPayloadAborts ==
    /\ [][ last'.op = "process_instruction" =>
             /\ last'.err = "panic"
             /\ \E instruction_data \in InstructionPayloads :
                    try_from_slice_err(program_id, instruction_data) # "Ok"
             /\ UNCHANGED <<pools, loans, payrolls, token, transfers, applied>>
         ]_vars
    /\ [](\A program \in {LendingID, PayrollID}, instruction_data \in InstructionPayloads :
            (process_instruction_err(program, instruction_data) = "Ok")
                <=> /\ Len(instruction_data) > 0
                    /\ payload_length(program, instruction_data[1])
                           = Len(instruction_data) - 1)

\* undecodable data was sent to the lending program after a loan was opened
C24_Witness ==
    /\ last = Outcome("process_instruction", "panic", TRUE)
    /\ program_id = LendingID
    /\ loans # EmptyAccounts

\* C25: re-borrow is permitted and overwrites.  A signed Borrow with the
\* accounts of an existing loan and a free result record is accepted
\* whatever active flag and principal the loan stores, and an accepted
\* BorrowCallback stores the loan amount of the result record it is given as
\* the principal, in place of whatever was stored.  The first conjunct is
\* the callback; the second says that no rejected step is such a Borrow.
\* (Checked under Spec.)
C25_ReborrowOverwrites ==
    [][ /\ \A l \in DOMAIN loans, t \in DOMAIN transfers :
             (last'.err = "Ok" /\ process_borrow_callback(l, t)) =>
                 /\ loans'[l].encrypted_principal = output_of(t)[1]
                 /\ loans'[l].active = loans[l].active
        /\ \A lender \in Lenders, b \in Borrowers, id \in TransferIds :
             LET a == LoanAccounts(lender, b)
             IN  ( /\ last'.err # "Ok"
                   /\ a.loan \in DOMAIN loans
                   /\ get_transfer_account_address(
                          <<a.asset_vault_ata, a.collateral_vault_ata>>, id)
                          \notin DOMAIN transfers
                   /\ process_borrow(b, TRUE, lender, a.lending_pool, a.loan,
                          a.asset_vault_ata, a.collateral_vault_ata,
                          get_associated_token_address(pubkey(b), AssetMint),
                          get_associated_token_address(pubkey(b), CollateralMint),
                          1, id) )
                   => FALSE
      ]_vars

\* two borrows on one loan were settled with nonzero loan amounts and both
\* callbacks were applied; the loan stores one loan amount, not their sum
C25_Witness ==
    \E l \in DOMAIN loans, t1, t2 \in DOMAIN transfers :
        /\ t1 # t2
        /\ <<"BorrowCallback", l, t1>> \in applied
        /\ <<"BorrowCallback", l, t2>> \in applied
        /\ transfers[t1].kind = "borrow" /\ transfers[t2].kind = "borrow"
        /\ transfers[t1].status = "Success" /\ transfers[t2].status = "Success"
        /\ rescue_decrypt(output_of(t1)[1]) > 0
        /\ rescue_decrypt(output_of(t2)[1]) > 0
        /\ loans[l].encrypted_principal = output_of(t2)[1]

\* a settlement of the loan is under way: requested and not yet carried
\* out, or carried out with its callback not yet applied to the loan
settlement_pending(loan_addr) ==
    \E t \in DOMAIN transfers :
        /\ transfers[t].kind \in {"borrow", "repay"}
        /\ transfers[t].callback.account = loan_addr
        /\ \/ transfers[t].status = "Requested"
           \/ /\ transfers[t].status = "Success"
              /\ <<transfers[t].callback.instruction, loan_addr, t>> \notin applied

\* what borrow settlements paid out to the borrower less what repay
\* settlements paid to the lender: the borrower starts without asset tokens
\* and receives them from nobody else, so it is what the borrower holds and
\* what waits in the repay account
outstanding_debt(lender, borrower) ==
    token[get_associated_token_address(pubkey(borrower), AssetMint)]
    + token[LoanAccounts(lender, borrower).asset_repay_ata]

\* C26: debt is never under-recorded.  In every state in which no
\* settlement of a loan is pending, the stored principal is at least the
\* asset paid out by the loan's borrow settlements less the asset paid to
\* the lender by its repay settlements, and the collateral vault of the
\* loan is not empty while that amount is not zero.  (Checked under Spec.)
C26_DebtNeverUnderRecorded ==
    \A lender \in Lenders, b \in Borrowers :
        LET a == LoanAccounts(lender, b)
        IN  (a.loan \in DOMAIN loans /\ ~settlement_pending(a.loan)) =>
                /\ rescue_decrypt(loans[a.loan].encrypted_principal)
                       >= outstanding_debt(lender, b)
                /\ outstanding_debt(lender, b) > 0
                       => token[a.collateral_vault_ata] > 0

\* C27: a callback is bound to its own request.  A step that changes an
\* existing loan record is a BorrowCallback or RepayCallback given a result
\* record that a request of the same kind created for that very loan and
\* whose computation has completed.  (Checked under CrowdSpec.)
C27_CallbackBoundToRequest ==
    [][ \A l \in DOMAIN loans :
          loans'[l] # loans[l] =>
            \E t \in DOMAIN transfers :
                /\ transfers[t].callback.account = l
                /\ transfers[t].status # "Requested"
                /\ transfers[t].custom_computation_output.some
                /\ \/ /\ transfers[t].kind = "borrow"
                      /\ process_borrow_callback(l, t)
                   \/ /\ transfers[t].kind = "repay"
                      /\ process_repay_callback(l, t)
      ]_vars

\* C28: borrow is defined for every pool that can be created.  Whatever
\* loan_to_value_bps InitializeLendingPool stored, every borrow computation
\* that is carried out divides the loan by a ratio price * loan_to_value_bps
\* that is not zero.  (Checked under Spec.)
C28_BorrowDividesByNonzero ==
    [][ \A t \in DOMAIN transfers :
          (transfers[t].kind = "borrow" /\ mxe_execute(t)) =>
              transfers[t].arguments.price
                  * transfers[t].arguments.loan_to_value_bps # 0
      ]_vars

-----------------------------------------------------------------------------
(* The products and the sum of the encrypted instructions at the width of  *)
(* their operands.  An amount is a u64, held here as its eight bytes, least *)
(* significant first, so that a product that does not fit can be told from *)
(* one that does.                                                          *)

U64_BYTES == 8

\* the u64 with a value below 2^31
u64(n) == [i \in 1..U64_BYTES |-> IF i > 4 THEN 0 ELSE (n \div 256^(i - 1)) % 256]

U64_MAX == [i \in 1..U64_BYTES |-> 255]

byte_at(x, i) == IF i <= Len(x) THEN x[i] ELSE 0

\* two byte strings of any lengths hold the same number
same_value(x, y) ==
    \A i \in 1..(Len(x) + Len(y)) : byte_at(x, i) = byte_at(y, i)

\* the sum of x[i] * y[k + 1 - i] over i from..k: column k of the product
RECURSIVE column(_, _, _, _)
column(x, y, k, from) ==
    IF from > k THEN 0
    ELSE byte_at(x, from) * byte_at(y, k + 1 - from) + column(x, y, k, from + 1)

\* bytes k.. of the product of x and y, all Len(x) + Len(y) of them kept
RECURSIVE mul_bytes(_, _, _, _)
mul_bytes(x, y, k, carry) ==
    IF k > Len(x) + Len(y) THEN <<>>
    ELSE LET c == column(x, y, k, 1) + carry
         IN  <<c % 256>> \o mul_bytes(x, y, k + 1, c \div 256)

\* the product as a number: nothing cut off
exact_mul(x, y) == mul_bytes(x, y, 1, 0)

\* a * b on u64 operands: the low eight bytes of the product
wrapping_mul(x, y) == SubSeq(exact_mul(x, y), 1, U64_BYTES)

\* bytes k.. of the sum of x and y, one byte more than the longer operand
RECURSIVE add_bytes(_, _, _, _)
add_bytes(x, y, k, carry) ==
    IF k > (IF Len(x) > Len(y) THEN Len(x) ELSE Len(y)) + 1 THEN <<>>
    ELSE LET c == byte_at(x, k) + byte_at(y, k) + carry
         IN  <<c % 256>> \o add_bytes(x, y, k + 1, c \div 256)

exact_add(x, y) == add_bytes(x, y, 1, 0)

\* a + b on u64 operands
wrapping_add(x, y) == SubSeq(exact_add(x, y), 1, U64_BYTES)

\* the remainder of the bytes k.. of x (as a number) divided by d
RECURSIVE rem_from(_, _, _)
rem_from(x, d, k) ==
    IF k > Len(x) THEN 0 ELSE (rem_from(x, d, k + 1) * 256 + x[k]) % d

\* x / d, truncating, for a divisor below 2^23
div_small(x, d) ==
    [k \in 1..Len(x) |-> (rem_from(x, d, k + 1) * 256 + x[k]) \div d]

\* does a value computed on u64 operands differ from the number it stands for
wraps(value, exact) == ~same_value(value, exact)

\* lib.rs 21-23 with u64 arithmetic: the ratio, the product, max_loan_amount
borrow_at_width(collateral_amount, price, loan_to_value_bps) ==
    LET ratio == wrapping_mul(price, loan_to_value_bps)
        product == wrapping_mul(collateral_amount, ratio)
        exact_product ==
            exact_mul(collateral_amount, exact_mul(price, loan_to_value_bps))
    IN  [ product               |-> product,
          exact_product         |-> exact_product,
          max_loan_amount       |-> div_small(product, BPS_DENOMINATOR),
          exact_max_loan_amount |-> div_small(exact_product, BPS_DENOMINATOR) ]

\* lib.rs 71-74 with u64 arithmetic: the product, interest_accrued, total_due
repay_at_width(remaining_principal, interest_rate_bps, slots_elapsed) ==
    LET ratio == wrapping_mul(interest_rate_bps, slots_elapsed)
        product == wrapping_mul(remaining_principal, ratio)
        exact_product ==
            exact_mul(remaining_principal,
                      exact_mul(interest_rate_bps, slots_elapsed))
        interest_accrued == div_small(product, BPS_DENOMINATOR)
        exact_interest_accrued == div_small(exact_product, BPS_DENOMINATOR)
    IN  [ product                |-> product,
          exact_product          |-> exact_product,
          interest_accrued       |-> interest_accrued,
          exact_interest_accrued |-> exact_interest_accrued,
          total_due              |-> wrapping_add(remaining_principal,
                                                  interest_accrued),
          exact_total_due        |-> exact_add(remaining_principal,
                                               exact_interest_accrued) ]

\* amounts up to the largest u64: small ones, the amounts of the tests, the
\* largest amount whose product with 10_000 fits and the one after it
WideAmounts ==
    { u64(0), u64(1), u64(1000), u64(2500),
      <<203, 16, 199, 186, 184, 141, 6, 0>>,
      <<204, 16, 199, 186, 184, 141, 6, 0>>,
      U64_MAX }

WidePrices == { u64(1), u64(2) }

WideBps == { u64(0), u64(1000), u64(10000), u64(65535) }

WideSlots == { u64(0), u64(10), U64_MAX }

WidthInit ==
    /\ LedgerInit(ArcisID)
    /\ cin \in [ circuit           : {"borrow"},
                 collateral_amount : WideAmounts,
                 price             : WidePrices,
                 loan_to_value_bps : WideBps ]
               \cup
               [ circuit             : {"repay"},
                 remaining_principal : WideAmounts,
                 interest_rate_bps   : WideBps,
                 slots_elapsed       : WideSlots ]
    /\ cout = NoCircuit

\* A u64 operation whose result does not fit wraps, or aborts the computation
\* where the build checks for overflow.
WidthBorrow ==
    /\ cin.circuit = "borrow"
    /\ cout = NoCircuit
    /\ \E overflow_checks \in BOOLEAN :
         LET r == borrow_at_width(cin.collateral_amount, cin.price,
                                  cin.loan_to_value_bps)
         IN  cout' = [ circuit |-> "borrow",
                       aborted |-> overflow_checks
                                       /\ wraps(r.product, r.exact_product),
                       result  |-> r ]
    /\ UNCHANGED <<ledger, cin>>

WidthRepay ==
    /\ cin.circuit = "repay"
    /\ cout = NoCircuit
    /\ \E overflow_checks \in BOOLEAN :
         LET r == repay_at_width(cin.remaining_principal, cin.interest_rate_bps,
                                 cin.slots_elapsed)
         IN  cout' = [ circuit |-> "repay",
                       aborted |-> overflow_checks
                                       /\ \/ wraps(r.product, r.exact_product)
                                          \/ wraps(r.total_due, r.exact_total_due),
                       result  |-> r ]
    /\ UNCHANGED <<ledger, cin>>

WidthNext ==
    \/ WidthBorrow
    \/ WidthRepay

WidthSpec == WidthInit /\ [][WidthNext]_vars

\* C29: no arithmetic wraparound.  For all u64 amounts and 16-bit rates the
\* products collateral * (price * ltv_bps) and principal * (rate_bps *
\* slots_elapsed) and the sum principal + interest are the numbers they stand
\* for, so that max_loan_amount, interest_accrued and total_due are their
\* mathematical values and no computation aborts.  (Checked under WidthSpec.)
C29_NoWraparound ==
    cout # NoCircuit =>
        /\ ~cout.aborted
        /\ ~wraps(cout.result.product, cout.result.exact_product)
        /\ cout.circuit = "borrow" =>
               ~wraps(cout.result.max_loan_amount,
                      cout.result.exact_max_loan_amount)
        /\ cout.circuit = "repay" =>
               /\ ~wraps(cout.result.interest_accrued,
                         cout.result.exact_interest_accrued)
               /\ ~wraps(cout.result.total_due, cout.result.exact_total_due)

\* C30: repay bounds.  For every repay computation with total_due > 0:
\* actual_repay_amount <= the deposit in the repay account,
\* actual_repay_amount <= total_due, actual_repay_amount + remaining_due =
\* total_due, and collateral_repayment <= the locked collateral; the two
\* transfers are these amounts, so neither source is debited by more than it
\* holds.  (Checked under CircuitSpec.)
C30_RepayBounds ==
    (cout.circuit = "repay" /\ cout.result.total_due > 0) =>
        LET r == cout.result
        IN  /\ r.actual_repay_amount >= 0
            /\ r.actual_repay_amount <= cin.repay_amount
            /\ r.actual_repay_amount <= r.total_due
            /\ r.remaining_due >= 0
            /\ r.actual_repay_amount + r.remaining_due = r.total_due
            /\ r.collateral_repayment >= 0
            /\ r.collateral_repayment <= cin.locked_collateral
            /\ r.asset_transfer = r.actual_repay_amount
            /\ r.asset_transfer <= cin.repay_amount
            /\ r.collateral_transfer = r.collateral_repayment
            /\ r.collateral_transfer <= cin.locked_collateral

\* repay was applied to a deposit larger than a nonzero debt, and to it the
\* whole locked collateral was released
C30_Witness ==
    /\ cout.circuit = "repay"
    /\ cout.result.total_due > 0
    /\ cin.repay_amount > cout.result.total_due
    /\ cin.locked_collateral > 0
    /\ cout.result.collateral_repayment = cin.locked_collateral

-----------------------------------------------------------------------------
(* Further properties of the encrypted instructions (checked under         *)
(* CircuitSpec).                                                           *)

\* C31, as stated: for every repay with total_due > 0 the release is zero
\* when actual_repay_amount < total_due and the whole locked collateral when
\* actual_repay_amount = total_due, and the whole locked collateral is
\* released if and only if the loan is fully repaid.
C31_AllOrNothingAsStated ==
    (cout.circuit = "repay" /\ cout.result.total_due > 0) =>
        LET r == cout.result
        IN  /\ r.actual_repay_amount < r.total_due => r.collateral_repayment = 0
            /\ r.actual_repay_amount = r.total_due
                   => r.collateral_repayment = cin.locked_collateral
            /\ (r.collateral_repayment = cin.locked_collateral)
                   <=> r.loan_is_fully_repaid

\* C31: collateral release is all-or-nothing.  For every repay with
\* total_due > 0 the release is zero when actual_repay_amount < total_due
\* and the whole locked collateral when actual_repay_amount = total_due; a
\* fully repaid loan releases the whole locked collateral, and a release of
\* a nonzero locked collateral happens only for a fully repaid loan (of an
\* empty collateral vault "the whole" is released by every repay).
C31_AllOrNothing ==
    (cout.circuit = "repay" /\ cout.result.total_due > 0) =>
        LET r == cout.result
        IN  /\ r.actual_repay_amount < r.total_due => r.collateral_repayment = 0
            /\ r.actual_repay_amount = r.total_due
                   => r.collateral_repayment = cin.locked_collateral
            /\ r.loan_is_fully_repaid <=> r.actual_repay_amount = r.total_due
            /\ r.loan_is_fully_repaid
                   => r.collateral_repayment = cin.locked_collateral
            /\ (cin.locked_collateral > 0
                  /\ r.collateral_repayment = cin.locked_collateral)
                   => r.loan_is_fully_repaid

\* repay was applied to a deposit one short of the amount due, against
\* locked collateral, and released nothing
C31_Witness ==
    /\ cout.circuit = "repay"
    /\ cout.result.total_due > 1
    /\ cin.repay_amount = cout.result.total_due - 1
    /\ cin.locked_collateral > 1
    /\ cout.result.collateral_repayment = 0
    /\ ~cout.result.loan_is_fully_repaid

-----------------------------------------------------------------------------
(* The lending program with the computation network at work.  A rejected   *)
(* transaction is rolled back and the ledger goes on, so only accepted     *)
(* instructions are steps here; the network carries out every computation  *)
(* that was queued and delivers the callback the request registered, once, *)
(* to the account the request named.                                       *)

LiveInit ==
    /\ LedgerInit(LendingID)
    /\ cin = NoCircuit
    /\ cout = NoCircuit

\* pools are created with a nonzero loan-to-value: with zero the borrow
\* computation divides by zero and the recorded principal is arbitrary
LiveInitializeLendingPool ==
    /\ InitializeLendingPool
    /\ last'.err = "Ok"
    /\ \A a \in DOMAIN pools' : pools'[a].loan_to_value_bps > 0

LiveInitializeLoan == InitializeLoan /\ last'.err = "Ok"

LiveBorrow == Borrow /\ last'.err = "Ok"

LiveRepay == Repay /\ last'.err = "Ok"

\* the callback instruction a request registered, invoked for the first time
\* on the account the request named
deliver(t) ==
    /\ t \in DOMAIN transfers
    /\ <<transfers[t].callback.instruction, transfers[t].callback.account, t>>
           \notin applied
    /\ IF transfers[t].kind = "borrow"
       THEN process_borrow_callback(transfers[t].callback.account, t)
       ELSE process_repay_callback(transfers[t].callback.account, t)
    /\ last'.err = "Ok"

Deliver ==
    /\ Running(LendingID)
    /\ \E t \in DOMAIN transfers : deliver(t)

LiveNext ==
    \/ LiveInitializeLendingPool
    \/ LiveInitializeLoan
    \/ LiveBorrow
    \/ LiveRepay
    \/ Deliver
    \/ Deposit
    \/ Execute

\* every queued repay computation is carried out, and the callback of every
\* finished repay computation is delivered (nothing is assumed of borrow)
LiveFairness ==
    \A t \in RepayTransferAccounts :
        /\ WF_vars(mxe_execute(t))
        /\ WF_vars(deliver(t))

LiveSpec == LiveInit /\ [][LiveNext]_vars /\ LiveFairness

\* a settlement of the loan other than t is under way
other_settlement_pending(t) ==
    \E t2 \in DOMAIN transfers \ {t} :
        /\ t \in DOMAIN transfers
        /\ transfers[t2].callback.account = transfers[t].callback.account
        /\ \/ transfers[t2].status = "Requested"
           \/ /\ transfers[t2].status = "Success"
              /\ <<transfers[t2].callback.instruction,
                   transfers[t2].callback.account, t2>> \notin applied

\* what the repay computation of the request t would find due
due_of(t) ==
    repay(token[transfers[t].legs[1].source], token[transfers[t].legs[2].source],
          transfers[t].arguments.remaining_principal,
          transfers[t].arguments.slots_elapsed,
          transfers[t].arguments.interest_rate_bps, 0).total_due

\* a Repay request on a nonzero principal waits for its computation, the
\* repay account covers principal and interest, nothing else is pending
repay_covered(t) ==
    /\ t \in DOMAIN transfers
    /\ transfers[t].kind = "repay"
    /\ transfers[t].status = "Requested"
    /\ rescue_decrypt(transfers[t].arguments.remaining_principal) > 0
    /\ token[transfers[t].legs[1].source] >= due_of(t)
    /\ ~other_settlement_pending(t)

\* the request t was settled and its callback closed the loan
loan_closed(t) ==
    /\ t \in DOMAIN transfers
    /\ transfers[t].status = "Success"
    /\ <<"RepayCallback", transfers[t].callback.account, t>> \in applied
    /\ ~loans[transfers[t].callback.account].active
    /\ rescue_decrypt(loans[transfers[t].callback.account].encrypted_principal) = 0

\* C32: a loan can be closed.  Once a Repay request on a nonzero principal
\* is queued while the repay account holds principal plus interest and no
\* other settlement of the loan is pending, then, the computation being
\* carried out and the callback delivered, the loan reaches active = false
\* with principal zero (unless another settlement of the loan is started
\* meanwhile); and the step that carries out such a request moves the whole
\* locked collateral to the borrower.  (Checked under LiveSpec.)
C32_LoanCanBeClosed ==
    /\ \A t \in RepayTransferAccounts :
          repay_covered(t) ~> (loan_closed(t) \/ other_settlement_pending(t))
    /\ [][ \A t \in DOMAIN transfers :
             (repay_covered(t) /\ mxe_execute(t)) =>
                 /\ transfers'[t].status = "Success"
                 /\ token'[transfers[t].legs[2].source] = 0
                 /\ token'[transfers[t].legs[2].destination] =
                        token[transfers[t].legs[2].destination]
                        + token[transfers[t].legs[2].source]
         ]_vars

\* a loan with interest was closed by a repay that paid principal and
\* interest and the borrower holds the collateral again
C32_Witness ==
    \E t \in DOMAIN transfers :
        /\ loan_closed(t)
        /\ transfers[t].arguments.interest_rate_bps > 0
        /\ rescue_decrypt(transfers[t].arguments.remaining_principal) > 0
        /\ token[transfers[t].legs[1].destination] >= 2
        /\ token[transfers[t].legs[2].source] = 0
        /\ token[transfers[t].legs[2].destination] = InitialCollateral

-----------------------------------------------------------------------------
(* The lending program while the clock runs.  The lending handlers never   *)
(* read the clock; ClockSpec lets the slot advance between the accepted    *)
(* lending instructions, callbacks from any caller included, so that what  *)
(* a request passes to the computation can be compared with the slots that *)
(* have really elapsed.                                                    *)

\* the ledger moves on to the next slot while the lending program runs
slots_pass ==
    /\ Running(LendingID)
    /\ slot < MaxSlot
    /\ slot' = slot + 1
    /\ UNCHANGED <<program_id, pools, loans, payrolls, token, transfers, last,
                   applied, cin, cout>>

ClockInitializeLendingPool == InitializeLendingPool /\ last'.err = "Ok"

ClockBorrowCallback == BorrowCallback /\ last'.err = "Ok"

ClockRepayCallback == RepayCallback /\ last'.err = "Ok"

ClockNext ==
    \/ ClockInitializeLendingPool
    \/ LiveInitializeLoan
    \/ LiveBorrow
    \/ ClockBorrowCallback
    \/ LiveRepay
    \/ ClockRepayCallback
    \/ slots_pass
    \/ Deposit
    \/ Execute

ClockSpec == LiveInit /\ [][ClockNext]_vars

\* the four fields of a loan record that only InitializeLoan writes
unused_fields(loan) ==
    <<loan.borrower, loan.lending_pool, loan.encrypted_collateral,
      loan.last_update_slot>>

\* C33: once a loan record exists no step changes its borrower, lending_pool,
\* encrypted_collateral or last_update_slot, and last_update_slot is 0 in
\* every state; every Repay request hands slots_elapsed = 10 and the interest
\* rate of the loan's pool to the computation, every Borrow request price = 1
\* and the pool's loan-to-value, whatever the slot is.  (Checked under
\* ClockSpec.)
C33_UnusedLoanFieldsFrozen ==
    /\ [][ \A a \in DOMAIN loans :
              /\ a \in DOMAIN loans'
              /\ unused_fields(loans'[a]) = unused_fields(loans[a]) ]_vars
    /\ [] (\A a \in DOMAIN loans :
              /\ loans[a].last_update_slot = 0
              /\ loans[a].encrypted_collateral = RescueCiphertextDefault)
    /\ [][ \A t \in DOMAIN transfers' \ DOMAIN transfers :
              LET request == transfers'[t]
                  loan == loans[request.callback.account]
                  pool == pools[loan.lending_pool]
              IN  /\ request.kind = "repay" =>
                        request.arguments =
                            [ remaining_principal |-> loan.encrypted_principal,
                              slots_elapsed |-> 10,
                              interest_rate_bps |-> pool.interest_rate_bps ]
                  /\ request.kind = "borrow" =>
                        request.arguments =
                            [ price |-> 1,
                              loan_to_value_bps |-> pool.loan_to_value_bps ] ]_vars

\* a loan that was repaid after the clock moved on from the slot of its
\* Borrow request: the Repay request still carries slots_elapsed = 10
C33_Witness ==
    /\ slot = MaxSlot
    /\ \E t \in DOMAIN transfers :
          /\ transfers[t].kind = "repay"
          /\ transfers[t].arguments.slots_elapsed = 10
          /\ transfers[t].arguments.interest_rate_bps > 0
          /\ rescue_decrypt(transfers[t].arguments.remaining_principal) > 0
          /\ <<"RepayCallback", transfers[t].callback.account, t>> \in applied
          /\ loans[transfers[t].callback.account].last_update_slot = 0
          /\ loans[transfers[t].callback.account].borrower \in Borrowers

-----------------------------------------------------------------------------
(* The borrower list of a pool and the loan records (checked under         *)
(* CrowdSpec).                                                             *)

\* the loan records initialized against the pool at address p
loans_of(p) == {a \in DOMAIN loans : loans[a].lending_pool = p}

\* C34: in every state a pool's num_borrowers is the number of loan records
\* initialized against it, its first num_borrowers entries are the borrowers
\* of exactly those loans, each once, and every InitializeLoan that creates a
\* record writes its borrower into the entry behind the ones written before
\* (creation order); an InitializeLoan for a lender and borrower whose loan
\* record exists is refused because the account is in use.
C34_BorrowerListMatchesLoans ==
    /\ [] (\A p \in DOMAIN pools :
              /\ pools[p].num_borrowers = Cardinality(loans_of(p))
              /\ pools[p].num_borrowers <= MAX_BORROWERS
              /\ {pools[p].borrowers[i] : i \in 0..(pools[p].num_borrowers - 1)}
                     = {loans[a].borrower : a \in loans_of(p)}
              /\ \A i, j \in 0..(pools[p].num_borrowers - 1) :
                     pools[p].borrowers[i] = pools[p].borrowers[j] => i = j
              /\ \A a \in loans_of(p) :
                     a = loan_pda(pools[p].lender, loans[a].borrower))
    /\ [] (\A a \in DOMAIN loans : loans[a].lending_pool \in DOMAIN pools)
    /\ [][ \A a \in DOMAIN loans' \ DOMAIN loans :
              LET p == loans'[a].lending_pool
              IN  /\ pools'[p].num_borrowers = pools[p].num_borrowers + 1
                  /\ pools'[p].borrowers[pools[p].num_borrowers] = loans'[a].borrower
                  /\ \A i \in 0..(pools[p].num_borrowers - 1) :
                         pools'[p].borrowers[i] = pools[p].borrowers[i] ]_vars
    /\ [][ \A lender \in Lenders, i \in 1..Len(Applicants) :
              ( /\ last.err = "Ok"
                /\ loan_pda(lender, Applicants[i]) \in DOMAIN loans
                /\ process_initialize_loan(Applicants[i], TRUE, lender,
                       LoanAccounts(lender, Applicants[i]).lending_pool,
                       LoanAccounts(lender, Applicants[i]).loan,
                       LoanAccounts(lender, Applicants[i]).asset_vault_ata,
                       LoanAccounts(lender, Applicants[i]).collateral_vault_ata,
                       LoanAccounts(lender, Applicants[i]).asset_repay_ata) )
              => /\ last'.op = "InitializeLoan"
                 /\ last'.err = "AccountAlreadyInUse"
                 /\ loans' = loans
                 /\ pools' = pools ]_vars

\* a second InitializeLoan was refused on a pool that lists three borrowers
C34_Witness ==
    /\ last.op = "InitializeLoan"
    /\ last.err = "AccountAlreadyInUse"
    /\ last.canonical
    /\ \E p \in DOMAIN pools :
          /\ pools[p].num_borrowers = 3
          /\ Cardinality(loans_of(p)) = 3
          /\ pools[p].borrowers[0] = Applicants[1]
          /\ pools[p].borrowers[2] = Applicants[3]

-----------------------------------------------------------------------------
(* Further properties of the payroll program (checked under PayrollSpec).  *)

\* the claims of employee e that were accepted so far: each one left its
\* settlement in a result record
accepted_claims(e) ==
    {t \in DOMAIN transfers :
        /\ transfers[t].kind = "claim"
        /\ transfers[t].legs[1].destination =
               get_associated_token_address(pubkey(e), PayrollMint)}

\* C35: a ClaimSalary is refused as already claimed only after a real claim:
\* whenever a step is a ClaimSalary rejected with the already-claimed error
\* Custom(0), a listed employee has an accepted ClaimSalary before it; so the
\* first claim of a newly added employee is never refused in this way,
\* whatever the slot is, slot 0 included.
C35_AlreadyClaimedOnlyAfterClaim ==
    [][ (last'.op = "ClaimSalary" /\ last'.err = "Custom(0)") =>
            \E e \in Hires : accepted_claims(e) # {} ]_vars

-----------------------------------------------------------------------------
(* A payroll whose list holds the same employee more than once.  The       *)
(* employer appends erin and zed in any order and as often as the list     *)
(* takes, the k-th entry with salary k so that every entry can be told     *)
(* from the others; the employees claim while the clock runs, and the      *)
(* callback of a claim is delivered by any caller at any time.             *)

RosterInitialize == PayrollInitialize /\ last'.err = "Ok"

\* the salary the employer gives to the next entry of its list
next_salary(employer) ==
    IF payroll_pda(employer) \in DOMAIN payrolls
    THEN payrolls[payroll_pda(employer)].num_employees + 1
    ELSE 1

\* AddEmployee signed by the employer on its own payroll, accepted or not
RosterAddEmployee ==
    /\ Running(PayrollID)
    /\ \E employer \in Employers, employee \in ClaimSigners :
           process_add_employee(employer, TRUE, payroll_pda(employer), employee,
                                rescue_encrypt(next_salary(employer)))

RosterClaimSalary == ClaimSalary /\ last'.err = "Ok"

RosterClaimSalaryCallback == ClaimSalaryCallback /\ last'.err = "Ok"

RosterNext ==
    \/ RosterInitialize
    \/ RosterAddEmployee
    \/ RosterClaimSalary
    \/ RosterClaimSalaryCallback
    \/ advance_slot
    \/ Deposit
    \/ Execute

RosterSpec == PayrollInit /\ [][RosterNext]_vars

\* the entries of a payroll that repeat the key of an earlier entry
later_entries(payroll) ==
    {i \in 0..(payroll.num_employees - 1) :
        \E j \in 0..(i - 1) : payroll.employees[j].key = payroll.employees[i].key}

\* C36: AddEmployee appends without looking for the key: signed by the
\* employer on its payroll it is accepted for a key that is listed already
\* as long as fewer than MAX_EMPLOYEES entries are written, repeated entries
\* counted, and refused once MAX_EMPLOYEES are.  An accepted ClaimSalary
\* submits the salary of the earliest entry with the claimant's key and
\* moves the slot fields of that entry only, and no step ever changes an
\* entry that repeats the key of an earlier one.  (Checked under RosterSpec.)
C36_DuplicateEntries ==
    /\ [][ \A employer \in Employers, employee \in ClaimSigners :
              ( /\ last.err = "Ok"
                /\ payroll_pda(employer) \in DOMAIN payrolls
                /\ process_add_employee(employer, TRUE, payroll_pda(employer),
                       employee, rescue_encrypt(next_salary(employer))) )
              => LET payroll == payrolls[payroll_pda(employer)]
                 IN  IF payroll.num_employees < MAX_EMPLOYEES
                     THEN /\ last'.err = "Ok"
                          /\ payrolls'[payroll_pda(employer)].num_employees
                                 = payroll.num_employees + 1
                          /\ payrolls'[payroll_pda(employer)]
                                 .employees[payroll.num_employees].key = employee
                     ELSE /\ last'.err = "AccountDataTooSmall"
                          /\ payrolls' = payrolls ]_vars
    /\ [][ \A t \in DOMAIN transfers' \ DOMAIN transfers :
              \A a \in DOMAIN payrolls, employee \in ClaimSigners :
                  ( /\ transfers'[t].kind = "claim"
                    /\ transfers'[t].callback.account = a
                    /\ transfers'[t].legs[1].destination =
                           get_associated_token_address(pubkey(employee), PayrollMint) )
                  => LET first == CHOOSE i \in 0..(payrolls[a].num_employees - 1) :
                                     /\ payrolls[a].employees[i].key = employee
                                     /\ \A j \in 0..(i - 1) :
                                            payrolls[a].employees[j].key # employee
                     IN  /\ transfers'[t].arguments.encrypted_amount =
                                payrolls[a].employees[first].encrypted_salary
                         /\ payrolls'[a] = [payrolls[a] EXCEPT
                                !.employees[first].previous_claimed_slot =
                                    payrolls[a].employees[first].last_claimed_slot,
                                !.employees[first].last_claimed_slot = slot] ]_vars
    /\ [][ \A a \in DOMAIN payrolls : \A i \in later_entries(payrolls[a]) :
              payrolls'[a].employees[i] = payrolls[a].employees[i] ]_vars
    /\ [] (\A a \in DOMAIN payrolls : \A i \in later_entries(payrolls[a]) :
              /\ payrolls[a].employees[i].last_claimed_slot = 0
              /\ payrolls[a].employees[i].previous_claimed_slot = 0)

\* erin is listed behind zed with salary 2 and again with salary 3, and has
\* claimed in a later slot: the claim carries salary 2, the entry with salary
\* 3 is untouched; the list was filled up to its capacity afterwards
C36_Witness ==
    \E a \in DOMAIN payrolls :
        /\ payrolls[a].num_employees = MAX_EMPLOYEES
        /\ payrolls[a].employees[0].key = "zed"
        /\ payrolls[a].employees[1].key = "erin"
        /\ payrolls[a].employees[2].key = "erin"
        /\ payrolls[a].employees[1].last_claimed_slot > 0
        /\ payrolls[a].employees[2].last_claimed_slot = 0
        /\ rescue_decrypt(payrolls[a].employees[2].encrypted_salary) = 3
        /\ \E t \in DOMAIN transfers :
              /\ transfers[t].kind = "claim"
              /\ rescue_decrypt(transfers[t].arguments.encrypted_amount) = 2
        /\ last.op = "AddEmployee"
        /\ last.err = "AccountDataTooSmall"

\* the entry e after a claim at slot s
claimed_at(e, s) ==
    [e EXCEPT !.previous_claimed_slot = e.last_claimed_slot,
              !.last_claimed_slot = s]

\* C37: payroll record frame.  No step removes a payroll, changes its
\* employer or mint, lowers num_employees or changes the key or the
\* encrypted salary of a listed entry.  A step that accepts a ClaimSalary
\* changes one entry of the claimant's key and nothing else in the record:
\* previous_claimed_slot becomes the old last_claimed_slot, last_claimed_slot
\* the current slot.  Every other step that changes a record is an accepted
\* AddEmployee writing the next entry.  (Checked under RosterSpec.)
C37_PayrollRecordFrame ==
    /\ [][ \A a \in DOMAIN payrolls :
              /\ a \in DOMAIN payrolls'
              /\ payrolls'[a].num_employees >= payrolls[a].num_employees
              /\ payrolls'[a].employer = payrolls[a].employer
              /\ payrolls'[a].mint = payrolls[a].mint
              /\ \A i \in 0..(payrolls[a].num_employees - 1) :
                     /\ payrolls'[a].employees[i].key = payrolls[a].employees[i].key
                     /\ payrolls'[a].employees[i].encrypted_salary
                            = payrolls[a].employees[i].encrypted_salary ]_vars
    /\ [][ \A t \in DOMAIN transfers' \ DOMAIN transfers :
              LET a == transfers'[t].callback.account
              IN  \E i \in 0..(payrolls[a].num_employees - 1) :
                      /\ get_associated_token_address(
                             pubkey(payrolls[a].employees[i].key), PayrollMint)
                             = transfers'[t].legs[1].destination
                      /\ payrolls[a].employees[i].last_claimed_slot # slot
                      /\ payrolls' = [payrolls EXCEPT ![a].employees[i] =
                                         claimed_at(payrolls[a].employees[i], slot)] ]_vars
    /\ [][ \A a \in DOMAIN payrolls :
              (payrolls'[a] # payrolls[a] /\ DOMAIN transfers' = DOMAIN transfers)
              => /\ payrolls'[a].num_employees = payrolls[a].num_employees + 1
                 /\ \A i \in 0..(MAX_EMPLOYEES - 1) :
                        i # payrolls[a].num_employees =>
                            payrolls'[a].employees[i] = payrolls[a].employees[i]
                 /\ payrolls'[a].employees[payrolls[a].num_employees]
                        .last_claimed_slot = 0
                 /\ payrolls'[a].employees[payrolls[a].num_employees]
                        .previous_claimed_slot = 0 ]_vars

\* zed and erin are both listed; erin has claimed in two different slots
\* after the clock moved on, zed's entry still is as AddEmployee wrote it
C37_Witness ==
    \E a \in DOMAIN payrolls :
        /\ payrolls[a].num_employees = 2
        /\ payrolls[a].employees[0].key = "zed"
        /\ payrolls[a].employees[1].key = "erin"
        /\ payrolls[a].employees[1].previous_claimed_slot = 1
        /\ payrolls[a].employees[1].last_claimed_slot = 2
        /\ payrolls[a].employees[0].last_claimed_slot = 0
        /\ rescue_decrypt(payrolls[a].employees[1].encrypted_salary) = 2
        /\ Cardinality(DOMAIN transfers) = 2

\* what ClaimSalaryCallback finds in the result record it is given
transfer_outcome(transfer_account) ==
    IF transfer_result_err(transfer_account) # "Ok" THEN "unreadable"
    ELSE transfers[transfer_account].status

=============================================================================
